---- MODULE Spec2Model ----
(***************************************************************************)
(* A model of disaster-alerts: the dedup state store (state.py) with its   *)
(* state file, temp file and backup file, and the pipeline orchestrator    *)
(* (pipeline.py) that loads it, checks events against it, delivers and     *)
(* persists.                                                               *)
(*                                                                         *)
(* Encoding notes.  Python's None is the token None.  Text is a TLA+       *)
(* string.  Coordinates are whole degrees, so the "%.4f" of the bbox       *)
(* signature is exact.  A JSON value is a record tagged by t.  The content *)
(* of a file is a record tagged by kind: missing, text (bytes json.loads   *)
(* rejects), partial (a strict prefix of a serialization, which            *)
(* json.loads rejects as well) or json (a parsed document).                *)
(***************************************************************************)
EXTENDS Integers, Sequences, FiniteSets, TLC

VARIABLES
    st,        \* the State object of the running process, or NoState
    file,      \* content of the state file (State.path)
    tmp,       \* content of path.with_suffix(".json.tmp")
    bak,       \* content of path.with_suffix(".json.bak")
    savepc,    \* position inside State.save
    envLru,    \* value _env_lru_limit() returns
    lastLoad,  \* history: the branch the last State.load took
    hist,      \* history: per provider, the identities add_id was called with on this State
    fromEmpty, \* history: this State began with no identities
    reloaded,  \* history: this State was saved after a recording and loaded back
    adds,      \* history: the number of events passed to update_with by Update
    pc,            \* position of pipeline.run, or how it ended
    run,           \* which of two consecutive runs this is
    settings,      \* the Settings object run is called with
    events,        \* run's local events
    grouped,       \* run's local grouped, in insertion order
    gi,            \* _dispatch_emails: index of the next group of the loop
    sent_events,   \* _dispatch_emails: local sent_events
    events_notified, \* _dispatch_emails: local events_notified
    result,        \* the value run returned
    fetched,       \* history: what _fetch_from_enabled returned in this run
    loaded,        \* history: the State the load of this run returned
    fileAtLoad,    \* history: the state file as the load of this run left it
    delivered,     \* history: the events of the groups _email.send accepted in this run
    mailed,        \* history: key, recipients and events of each _email.send that returned
    skipped,       \* history: the events of the groups skipped for lack of recipients
    persisted,     \* history: this run executed update_with and save
    prevD,         \* history: the events the previous run delivered
    prevOk,        \* history: the previous run returned normally
    racers,        \* two runs inside State.save at once: each one's State, position and open file
    http,          \* one call of get_json: its arguments, position, attempts and responses
    mail           \* one plaintext body: the group's events and the events as listed

storeVars ==
    <<st, file, tmp, bak, savepc, envLru, lastLoad, hist, fromEmpty, reloaded, adds>>

runVars ==
    <<pc, run, settings, events, grouped, gi, sent_events, events_notified, result,
      fetched, loaded, fileAtLoad, delivered, mailed, skipped, persisted, prevD,
      prevOk>>

raceVars == <<racers>>

fetchVars == <<http>>

mailVars == <<mail>>

vars == <<storeVars, runVars, raceVars, fetchVars, mailVars>>

-----------------------------------------------------------------------------
(* Bounds of the model. *)

MaxBatch == 2       \* events in one update_with batch
MaxRecorded == 3    \* events passed to update_with in one behaviour
MaxLru == 2         \* largest lru_limit the environment sets
MaxFetch == 2       \* events one fetch returns

-----------------------------------------------------------------------------
(* Generic helpers. *)

None == "<None>"

Range(s) == {s[i] : i \in DOMAIN s}

SetMin(S) == CHOOSE x \in S : \A y \in S : x <= y

SetMax(S) == CHOOSE x \in S : \A y \in S : x >= y

Take(s, n) == SubSeq(s, 1, IF n < Len(s) THEN n ELSE Len(s))

\* list.remove(x): drops the first occurrence, if any
RemoveFirst(s, x) ==
    IF \E i \in DOMAIN s : s[i] = x
    THEN LET k == SetMin({i \in DOMAIN s : s[i] = x})
         IN  SubSeq(s, 1, k - 1) \o SubSeq(s, k + 1, Len(s))
    ELSE s

\* [x for x in s if x != v]
RECURSIVE Without(_, _)
Without(s, v) ==
    IF s = <<>> THEN <<>>
    ELSE (IF Head(s) = v THEN <<>> ELSE <<Head(s)>>) \o Without(Tail(s), v)

\* the distinct members of s, the most recently appended first
RECURSIVE Mru(_)
Mru(s) ==
    IF s = <<>> THEN <<>>
    ELSE <<s[Len(s)]>> \o Without(Mru(SubSeq(s, 1, Len(s) - 1)), s[Len(s)])

\* str.strip() on the texts the model uses
Strip(s) ==
    CASE s = " " -> ""
      [] s = " nws" -> "nws"
      [] OTHER -> s

\* `x or y` for a text or None
PyOr(x, y) == IF x = None \/ x = "" THEN y ELSE x

-----------------------------------------------------------------------------
(* Timestamps: state.py _parse_iso8601 and _is_newer. *)

NoInstant == -1

\* the UTC instant (hour of 2025-10-29) of a timestamp text, NoInstant when
\* fromisoformat rejects it or the value is empty or None
ParseIso8601(ts) ==
    CASE ts = "2025-10-29T21:00:00Z" -> 21
      [] ts = "2025-10-29T14:00:00-07:00" -> 21
      [] ts = "2025-10-29T22:00:00" -> 22
      [] ts = "2025-10-29T20:00:00+00:00" -> 20
      [] OTHER -> NoInstant

IsNewer(a, b) ==
    LET da == ParseIso8601(a)
        db == ParseIso8601(b)
    IN  IF da = NoInstant THEN FALSE
        ELSE IF db = NoInstant THEN TRUE
        ELSE da > db

-----------------------------------------------------------------------------
(* Geometry: state.py _iter_lon_lat and _geom_bbox_signature. *)

NoGeom == [type |-> None]

PointGeom(x, y) == [type |-> "Point", coordinates |-> <<x, y>>]

PolygonGeom(rings) == [type |-> "Polygon", coordinates |-> rings]

MultiPolygonGeom(polys) == [type |-> "MultiPolygon", coordinates |-> polys]

\* the (lon, lat) pairs _iter_lon_lat yields for a geometry of a supported type
IterLonLat(geom) ==
    CASE geom.type = "Point" ->
            IF Len(geom.coordinates) >= 2
            THEN {<<geom.coordinates[1], geom.coordinates[2]>>} ELSE {}
      [] geom.type = "Polygon" ->
            UNION {Range(r) : r \in Range(geom.coordinates)}
      [] geom.type = "MultiPolygon" ->
            UNION {Range(r) : r \in UNION {Range(p) : p \in Range(geom.coordinates)}}
      [] OTHER -> {}

Fmt4(n) == ToString(n) \o ".0000"

GeomBboxSignature(e) ==
    LET geom == e.geometry
    IN  IF geom.type \notin {"Point", "Polygon", "MultiPolygon"} THEN None
        ELSE LET pts == IterLonLat(geom)
                 xs == {p[1] : p \in pts}
                 ys == {p[2] : p \in pts}
             IN  IF pts = {} THEN None
                 ELSE Fmt4(SetMin(xs)) \o "," \o Fmt4(SetMin(ys)) \o "," \o
                      Fmt4(SetMax(xs)) \o "," \o Fmt4(SetMax(ys))

-----------------------------------------------------------------------------
(* The identity of an event: state.py is_new / update_with, lines 232-239  *)
(* and 251-258.                                                            *)

ProviderOf(e) == PyOr(Strip(PyOr(e.provider, "")), "unknown")

BaseId(e) == Strip(PyOr(e.id, ""))

Eid(e) ==
    LET sig == GeomBboxSignature(e)
    IN  IF sig # None THEN BaseId(e) \o "|" \o sig ELSE BaseId(e)

UpdatedOf(e) == e.updated

-----------------------------------------------------------------------------
(* _ProviderState *)

EmptyProviderState == [ids |-> <<>>, last_updated |-> None]

\* a slip: the cut one entry too early
TruncateOneShort(ids, limit) ==
    IF Len(ids) > limit - 1
    THEN SubSeq(ids, 1, IF limit - 1 > 0 THEN limit - 1 ELSE 0)
    ELSE ids

\* del ids[limit:] when len(ids) > limit; a negative limit counts from the end
Truncate(ids, limit) ==
    IF Len(ids) > limit
    THEN IF limit >= 0 THEN SubSeq(ids, 1, limit)
         ELSE SubSeq(ids, 1, IF Len(ids) + limit > 0 THEN Len(ids) + limit ELSE 0)
    ELSE ids

\* a slip: a new identity is appended, so the cut drops the newest
AddIdAtEnd(ids, eid, lru_limit) ==
    IF eid = "" THEN ids
    ELSE IF ids # <<>> /\ ids[1] = eid THEN ids
    ELSE Truncate(RemoveFirst(ids, eid) \o <<eid>>, lru_limit)

\* a slip: an identity that is in the list is left where it is
AddIdNoMove(ids, eid, lru_limit) ==
    IF eid = "" THEN ids
    ELSE IF eid \in Range(ids) THEN ids
    ELSE Truncate(<<eid>> \o ids, lru_limit)

\* a slip: the earlier occurrence of the identity is left in the list
AddIdKeepsOld(ids, eid, lru_limit) ==
    IF eid = "" THEN ids
    ELSE IF ids # <<>> /\ ids[1] = eid THEN ids
    ELSE Truncate(<<eid>> \o ids, lru_limit)

AddId(ids, eid, lru_limit) ==
    IF eid = "" THEN ids
    ELSE IF ids # <<>> /\ ids[1] = eid THEN ids
    ELSE Truncate(<<eid>> \o RemoveFirst(ids, eid), lru_limit)

\* a slip: the value is taken without the comparison
ConsiderUpdatedAlways(ps, updated) ==
    IF updated # None /\ updated # ""
    THEN [ps EXCEPT !.last_updated = updated]
    ELSE ps

ConsiderUpdated(ps, updated) ==
    IF updated # None /\ updated # "" /\ IsNewer(updated, ps.last_updated)
    THEN [ps EXCEPT !.last_updated = updated]
    ELSE ps

-----------------------------------------------------------------------------
(* State *)

NoState == [kind |-> "none"]

IsState(s) == s.kind = "state"

MkState(version, providers, lru_limit) ==
    [kind |-> "state", version |-> version, providers |-> providers,
     lru_limit |-> lru_limit]

NoProviders == [p \in {} |-> EmptyProviderState]

\* cls(path=path): version 1, no providers, lru_limit from the environment
FreshState(env) == MkState(1, NoProviders, env)

\* State._prov: the providers mapping after the lookup, which adds a missing entry
Prov(providers, name) ==
    IF name \in DOMAIN providers THEN providers
    ELSE providers @@ (name :> EmptyProviderState)

\* a slip: the identity is looked up in the lists of every provider
IsNewAnyProvider(s, e) ==
    IF BaseId(e) = "" THEN TRUE
    ELSE \A p \in DOMAIN s.providers : Eid(e) \notin Range(s.providers[p].ids)

\* a slip: an event not newer than its provider's watermark is taken as seen
IsNewFresh(s, e) ==
    IF BaseId(e) = "" THEN TRUE
    ELSE LET provs == Prov(s.providers, ProviderOf(e))
         IN  /\ Eid(e) \notin Range(provs[ProviderOf(e)].ids)
             /\ \/ provs[ProviderOf(e)].last_updated = None
                \/ IsNewer(e.updated, provs[ProviderOf(e)].last_updated)

\* State.is_new: the value returned
IsNew(s, e) ==
    IF BaseId(e) = "" THEN TRUE
    ELSE LET provs == Prov(s.providers, ProviderOf(e))
         IN  Eid(e) \notin Range(provs[ProviderOf(e)].ids)

\* State.is_new: the State it leaves behind
AfterIsNew(s, e) ==
    IF BaseId(e) = "" THEN s
    ELSE [s EXCEPT !.providers = Prov(s.providers, ProviderOf(e))]

\* the first loop of update_with: providers and per_provider_max_updated
RECURSIVE UpdateLoop(_, _, _, _)
UpdateLoop(providers, perMax, lru_limit, evs) ==
    IF evs = <<>> THEN [providers |-> providers, perMax |-> perMax]
    ELSE LET e == Head(evs)
             p == ProviderOf(e)
         IN  IF BaseId(e) = ""
             THEN UpdateLoop(providers, perMax, lru_limit, Tail(evs))
             ELSE LET provs == Prov(providers, p)
                      added == [provs EXCEPT ![p].ids = AddId(@, Eid(e), lru_limit)]
                      prev == IF p \in DOMAIN perMax THEN perMax[p] ELSE None
                      best == IF IsNewer(UpdatedOf(e), prev) THEN UpdatedOf(e) ELSE prev
                      per2 == [q \in DOMAIN perMax \cup {p} |->
                                 IF q = p THEN best ELSE perMax[q]]
                  IN  UpdateLoop(added, per2, lru_limit, Tail(evs))

NoPerMax == [p \in {} |-> None]

\* State.update_with
UpdateWith(s, evs) ==
    LET r == UpdateLoop(s.providers, NoPerMax, s.lru_limit, evs)
    IN  [s EXCEPT !.providers =
            [p \in DOMAIN r.providers |->
                IF p \in DOMAIN r.perMax /\ r.perMax[p] # None /\ r.perMax[p] # ""
                THEN ConsiderUpdated(r.providers[p], r.perMax[p])
                ELSE r.providers[p]]]

\* what update_with passes to add_id, per provider, in order: the identity
\* (eid) and the id it was built from
RECURSIVE Recorded(_, _)
Recorded(h, evs) ==
    IF evs = <<>> THEN h
    ELSE LET e == Head(evs)
             p == ProviderOf(e)
         IN  IF BaseId(e) = "" THEN Recorded(h, Tail(evs))
             ELSE Recorded([q \in DOMAIN h \cup {p} |->
                              IF q = p
                              THEN (IF p \in DOMAIN h THEN h[p] ELSE <<>>)
                                   \o <<[id |-> BaseId(e), eid |-> Eid(e)]>>
                              ELSE h[q]],
                           Tail(evs))

-----------------------------------------------------------------------------
(* JSON values and file contents. *)

JNull == [t |-> "null"]

JInt(i) == [t |-> "int", i |-> i]

JStr(x) == [t |-> "str", s |-> x]

JList(items) == [t |-> "list", items |-> items]

JObj(fields) == [t |-> "obj", fields |-> fields]

Missing == [kind |-> "missing"]

TextFile(x) == [kind |-> "text", text |-> x]

PartialFile(doc) == [kind |-> "partial", doc |-> doc]

\* the text of one State written over the longer text of another
MixedFile == [kind |-> "mixed"]

JsonFile(doc) == [kind |-> "json", doc |-> doc]

\* Path.exists()
Exists(f) == f.kind # "missing"

\* json.loads(path.read_text()) raises
Unparseable(f) == f.kind \in {"text", "partial", "mixed"}

\* dict.get(key, default)
Get(obj, key, default) ==
    IF key \in DOMAIN obj.fields THEN obj.fields[key] ELSE default

\* bool(v) of a JSON value
Truthy(v) ==
    CASE v.t = "null" -> FALSE
      [] v.t = "int" -> v.i # 0
      [] v.t = "str" -> v.s # ""
      [] v.t = "list" -> v.items # <<>>
      [] v.t = "obj" -> DOMAIN v.fields # {}

\* int(v) is defined: a number, or a text that spells one
IntConvertible(v) ==
    \/ v.t = "int"
    \/ v.t = "str" /\ v.s \in {"1", "2"}

\* int(v)
IntOf(v) ==
    CASE v.t = "int" -> v.i
      [] v.t = "str" /\ v.s = "1" -> 1
      [] v.t = "str" /\ v.s = "2" -> 2

-----------------------------------------------------------------------------
(* State.to_dict and State.load *)

RECURSIVE JStrs(_)
JStrs(ids) == IF ids = <<>> THEN <<>> ELSE <<JStr(Head(ids))>> \o JStrs(Tail(ids))

\* a slip: the watermark is not written
ProviderToDictNoWatermark(ps) ==
    JObj([k \in {"ids", "last_updated"} |->
            IF k = "ids" THEN JList(JStrs(ps.ids)) ELSE JNull])

ProviderToDict(ps) ==
    JObj([k \in {"ids", "last_updated"} |->
            IF k = "ids" THEN JList(JStrs(ps.ids))
            ELSE IF ps.last_updated = None THEN JNull ELSE JStr(ps.last_updated)])

ToDict(s) ==
    JObj([k \in {"version", "lru_limit", "providers"} |->
            CASE k = "version" -> JInt(s.version)
              [] k = "lru_limit" -> JInt(s.lru_limit)
              [] k = "providers" ->
                    JObj([name \in DOMAIN s.providers |->
                            ProviderToDict(s.providers[name])])])

\* lines 295-301: the text save writes, as the content of a file
SavedFile(s) == JsonFile(ToDict(s))

\* [s for s in ids if isinstance(s, str)]
RECURSIVE OnlyStrs(_)
OnlyStrs(items) ==
    IF items = <<>> THEN <<>>
    ELSE (IF Head(items).t = "str" THEN <<Head(items).s>> ELSE <<>>)
         \o OnlyStrs(Tail(items))

\* lines 202-209: one entry of "providers"
ProviderFromDict(obj) ==
    LET rawIds == Get(obj, "ids", JNull)
        ids == IF Truthy(rawIds) /\ rawIds.t = "list" THEN OnlyStrs(rawIds.items)
               ELSE <<>>
        lu == Get(obj, "last_updated", JNull)
    IN  [ids |-> ids, last_updated |-> IF lu.t = "str" THEN lu.s ELSE None]

\* lines 195-209: the providers mapping of a parsed document
ProvidersFromDict(data) ==
    LET got == Get(data, "providers", JObj(NoProviders))
        prov_raw == IF Truthy(got) THEN got ELSE JObj(NoProviders)
    IN  IF prov_raw.t = "obj"
        THEN LET names == {n \in DOMAIN prov_raw.fields : prov_raw.fields[n].t = "obj"}
             IN  [n \in names |-> ProviderFromDict(prov_raw.fields[n])]
        ELSE NoProviders

\* lines 194-212 raise: data.get on a non-object, int() of a value that is no number
LoadRaises(data, env) ==
    \/ data.t # "obj"
    \/ ~IntConvertible(Get(data, "version", JInt(1)))
    \/ ~IntConvertible(Get(data, "lru_limit", JInt(env)))

\* a slip: a document without lru_limit gets the limit 1
StateFromDictFixedDefault(data, env) ==
    MkState(IntOf(Get(data, "version", JInt(1))),
            ProvidersFromDict(data),
            IntOf(Get(data, "lru_limit", JInt(1))))

\* lines 194-212: the State built from a parsed document
StateFromDict(data, env) ==
    MkState(IntOf(Get(data, "version", JInt(1))),
            ProvidersFromDict(data),
            IntOf(Get(data, "lru_limit", JInt(env))))

\* a slip: the corrupt file always replaces the backup
BackupOverwritten(f, b) == f

\* the backup file after the corrupt-file branch, lines 183-190
BackupAfterCorrupt(f, b) == IF ~Exists(b) THEN f ELSE b

CorruptBranches == {"corrupt_backup", "corrupt_unlink"}

\* State.load: the branch taken, the State returned (NoState when it raises)
\* and the files it leaves
LoadOutcome(f, b, env) ==
    IF ~Exists(f)
    THEN [branch |-> "fresh", st |-> FreshState(env), file |-> f, bak |-> b]
    ELSE IF Unparseable(f)
    THEN [branch |-> IF ~Exists(b) THEN "corrupt_backup" ELSE "corrupt_unlink",
          st |-> FreshState(env), file |-> Missing, bak |-> BackupAfterCorrupt(f, b)]
    ELSE IF LoadRaises(f.doc, env)
    THEN [branch |-> "raised", st |-> NoState, file |-> f, bak |-> b]
    ELSE [branch |-> "ok", st |-> StateFromDict(f.doc, env), file |-> f, bak |-> b]

-----------------------------------------------------------------------------
(* Inputs of the store: event records and state files found on disk. *)

T20Utc == "2025-10-29T20:00:00+00:00"

T21Z == "2025-10-29T21:00:00Z"

T21Pacific == "2025-10-29T14:00:00-07:00"

T22Naive == "2025-10-29T22:00:00"

StoreEvent(provider, id, geometry, updated) ==
    [provider |-> provider, id |-> id, geometry |-> geometry, updated |-> updated]

StoreEvents ==
    { StoreEvent("nws", "a", NoGeom, T21Z),
      StoreEvent("nws", "a", PointGeom(1, 2), T22Naive),
      StoreEvent(" nws", "b", NoGeom, T21Pacific),
      StoreEvent("nws", "c", PolygonGeom(<< <<<<0, 0>>, <<4, 0>>, <<4, 3>>, <<0, 0>>>> >>), "soon"),
      StoreEvent("usgs", "a", PointGeom(1, 2), None),
      StoreEvent("nws", "a", [type |-> "LineString", coordinates |-> <<<<5, 5>>, <<6, 6>>>>], None),
      StoreEvent(None, " ", NoGeom, T22Naive) }

Batches(evs) ==
    UNION {[1..n -> evs] : n \in 1..MaxBatch}

LruInputs == 1..MaxLru

\* a document another version of the program, or a person, has written: more ids
\* than its lru_limit, entries of the wrong type, unknown fields
OverlongDoc ==
    JObj([k \in {"version", "lru_limit", "providers", "comment"} |->
            CASE k = "version" -> JStr("2")
              [] k = "lru_limit" -> JInt(2)
              [] k = "comment" -> JStr("edited by hand")
              [] k = "providers" ->
                    JObj([n \in {"nws", "old"} |->
                            IF n = "old" THEN JList(<<>>)
                            ELSE JObj([f \in {"ids", "last_updated", "etag"} |->
                                    CASE f = "ids" ->
                                            JList(<<JStr("c"), JInt(7), JStr("b"), JStr("a")>>)
                                      [] f = "last_updated" -> JInt(0)
                                      [] f = "etag" -> JNull])])])

BareDoc == JObj([k \in {"version"} |-> JInt(1)])

BadVersionDoc == JObj([k \in {"version"} |-> JStr("one")])

NullLruDoc == JObj([k \in {"lru_limit"} |-> JNull])

ForeignFiles ==
    { TextFile("{\"version\": 1, "),
      TextFile(""),
      JsonFile(JList(<<>>)),
      JsonFile(BadVersionDoc),
      JsonFile(NullLruDoc),
      JsonFile(BareDoc),
      JsonFile(OverlongDoc) }

-----------------------------------------------------------------------------
(* The store's operations as steps. *)

NoHist == [p \in {} |-> <<>>]

NoIdentities(s) == \A p \in DOMAIN s.providers : s.providers[p].ids = <<>>

\* no two runs overlap
NoRacers == <<>>

\* no message is being built
NoMail == [events |-> <<>>, built |-> FALSE, listed |-> <<>>]

\* no call of get_json is under way
HttpIdle ==
    [pc |-> "idle", retries |-> 0, attempt |-> 0, got |-> <<>>,
     nap |-> [by |-> "none", secs |-> 0], result |-> None]

\* no process holds a State; the files are as found
StoreIdle(files) ==
    /\ racers = NoRacers
    /\ http = HttpIdle
    /\ mail = NoMail
    /\ st = NoState
    /\ file \in files
    /\ tmp = Missing
    /\ bak = Missing
    /\ savepc = "idle"
    /\ envLru \in LruInputs
    /\ lastLoad = "none"
    /\ hist = NoHist
    /\ fromEmpty = FALSE
    /\ reloaded = FALSE
    /\ adds = 0

\* the store specifications call no pipeline.run
NoSettings == [configured |-> FALSE]

\* the locals and the history of run before a run begins
RunLocalsIdle(cfgs) ==
    /\ settings \in cfgs
    /\ events = <<>>
    /\ grouped = <<>>
    /\ gi = 1
    /\ sent_events = <<>>
    /\ events_notified = 0
    /\ result = 0
    /\ fetched = <<>>
    /\ loaded = NoState
    /\ fileAtLoad = Missing
    /\ delivered = <<>>
    /\ mailed = <<>>
    /\ skipped = <<>>
    /\ persisted = FALSE
    /\ prevD = <<>>
    /\ prevOk = FALSE

\* no run has begun
RunIdle(cfgs) ==
    /\ pc = "idle"
    /\ run = "none"
    /\ RunLocalsIdle(cfgs)

StoreInit(files) ==
    /\ RunIdle({NoSettings})
    /\ StoreIdle(files)


\* State.load(path), by a process that is not inside save
Load ==
    /\ savepc = "idle"
    /\ LET o == LoadOutcome(file, bak, envLru)
           same == IsState(st) /\ o.branch = "ok" /\ file = SavedFile(st)
       IN  /\ st' = o.st
           /\ file' = o.file
           /\ bak' = o.bak
           /\ lastLoad' = o.branch
           /\ hist' = IF same THEN hist ELSE NoHist
           /\ fromEmpty' = IF same THEN fromEmpty
                            ELSE IsState(o.st) /\ NoIdentities(o.st)
           /\ reloaded' = IF same THEN (reloaded \/ hist # NoHist) ELSE FALSE
    /\ UNCHANGED <<tmp, savepc, envLru, adds>>
    /\ UNCHANGED runVars
    /\ UNCHANGED <<raceVars, fetchVars, mailVars>>

\* state.is_new(e)
CheckIsNew(e) ==
    /\ savepc = "idle"
    /\ IsState(st)
    /\ st' = AfterIsNew(st, e)
    /\ UNCHANGED <<file, tmp, bak, savepc, envLru, lastLoad, hist, fromEmpty, reloaded, adds>>
    /\ UNCHANGED runVars
    /\ UNCHANGED <<raceVars, fetchVars, mailVars>>

\* state.update_with(batch)
Update(batch) ==
    /\ adds + Len(batch) <= MaxRecorded
    /\ savepc = "idle"
    /\ IsState(st)
    /\ st' = UpdateWith(st, batch)
    /\ hist' = Recorded(hist, batch)
    /\ adds' = adds + Len(batch)
    /\ UNCHANGED <<file, tmp, bak, savepc, envLru, lastLoad, fromEmpty, reloaded>>
    /\ UNCHANGED runVars
    /\ UNCHANGED <<raceVars, fetchVars, mailVars>>

\* a slip: save opens the state file itself for writing
SaveOpenInPlace ==
    /\ savepc = "idle"
    /\ IsState(st)
    /\ file' = TextFile("")
    /\ savepc' = "opened"
    /\ UNCHANGED <<st, tmp, bak, envLru, lastLoad, hist, fromEmpty, reloaded, adds>>
    /\ UNCHANGED runVars
    /\ UNCHANGED <<raceVars, fetchVars, mailVars>>

\* save, line 298: open(tmp, "w") creates or truncates the temp file
SaveOpen ==
    /\ savepc = "idle"
    /\ IsState(st)
    /\ tmp' = TextFile("")
    /\ savepc' = "opened"
    /\ UNCHANGED <<st, file, bak, envLru, lastLoad, hist, fromEmpty, reloaded, adds>>
    /\ UNCHANGED runVars
    /\ UNCHANGED <<raceVars, fetchVars, mailVars>>

\* save, line 299: a first part of the text has reached the temp file
SaveWritePart ==
    /\ savepc = "opened"
    /\ tmp' = PartialFile(ToDict(st))
    /\ savepc' = "writing"
    /\ UNCHANGED <<st, file, bak, envLru, lastLoad, hist, fromEmpty, reloaded, adds>>
    /\ UNCHANGED runVars
    /\ UNCHANGED <<raceVars, fetchVars, mailVars>>

\* save, lines 299-301: the whole text is in the temp file, flushed and fsynced
SaveWriteAll ==
    /\ savepc \in {"opened", "writing"}
    /\ tmp' = SavedFile(st)
    /\ savepc' = "synced"
    /\ UNCHANGED <<st, file, bak, envLru, lastLoad, hist, fromEmpty, reloaded, adds>>
    /\ UNCHANGED runVars
    /\ UNCHANGED <<raceVars, fetchVars, mailVars>>

\* save, line 303: os.replace(tmp, path)
SaveReplace ==
    /\ savepc = "synced"
    /\ file' = tmp
    /\ tmp' = Missing
    /\ savepc' = "idle"
    /\ UNCHANGED <<st, bak, envLru, lastLoad, hist, fromEmpty, reloaded, adds>>
    /\ UNCHANGED runVars
    /\ UNCHANGED <<raceVars, fetchVars, mailVars>>

\* the process is interrupted: its State is lost, the files stay as they are
Interrupt ==
    /\ IsState(st)
    /\ st' = NoState
    /\ savepc' = "idle"
    /\ hist' = NoHist
    /\ fromEmpty' = FALSE
    /\ reloaded' = FALSE
    /\ UNCHANGED <<file, tmp, bak, envLru, lastLoad, adds>>
    /\ UNCHANGED runVars
    /\ UNCHANGED <<raceVars, fetchVars, mailVars>>

\* between two runs the state file is damaged or replaced from outside
EnvWrite(f) ==
    /\ ~IsState(st)
    /\ savepc = "idle"
    /\ file # f
    /\ file' = f
    /\ UNCHANGED <<st, tmp, bak, savepc, envLru, lastLoad, hist, fromEmpty, reloaded, adds>>
    /\ UNCHANGED runVars
    /\ UNCHANGED <<raceVars, fetchVars, mailVars>>

\* State.save() run to its end: the steps above, one after the other
Save ==
    /\ savepc = "idle"
    /\ IsState(st)
    /\ file' = SavedFile(st)
    /\ tmp' = Missing
    /\ UNCHANGED <<st, bak, savepc, envLru, lastLoad, hist, fromEmpty, reloaded, adds>>
    /\ UNCHANGED runVars
    /\ UNCHANGED <<raceVars, fetchVars, mailVars>>

-----------------------------------------------------------------------------
(* Spec: the store as a run uses it, with files it can load.               *)

TidyFiles == {Missing, JsonFile(OverlongDoc)}

Init == StoreInit(TidyFiles)

Next ==
    \/ Load
    \/ \E e \in StoreEvents : CheckIsNew(e)
    \/ \E b \in Batches(StoreEvents) : Update(b)
    \/ Save

Spec == Init /\ [][Next]_vars

-----------------------------------------------------------------------------
(* SpecFs: the store's files under interruption and outside damage, with   *)
(* save taken step by step.                                                *)

FsEvents ==
    { StoreEvent("nws", "a", NoGeom, T21Z),
      StoreEvent("nws", "b", PointGeom(1, 2), None) }

FsInit == StoreInit({Missing} \cup ForeignFiles)

FsNext ==
    \/ Load
    \/ \E e \in FsEvents : Update(<<e>>)
    \/ SaveOpen
    \/ SaveWritePart
    \/ SaveWriteAll
    \/ SaveReplace
    \/ Interrupt
    \/ \E f \in ForeignFiles : EnvWrite(f)

SpecFs == FsInit /\ [][FsNext]_vars

-----------------------------------------------------------------------------
(* The rules engine: rules.py.  A number is a record that says whether the *)
(* value is a number (_is_number) and, when it is, its value in tenths.    *)

Num(v) == [isnum |-> TRUE, v |-> v]

NoNum == [isnum |-> FALSE, v |-> 0]

\* name.strip().lower() looked up in _SEVERITY_RANK, 0 when absent
SeverityRank(name) ==
    CASE name \in {"Minor", "minor", "Light"} -> 1
      [] name \in {"Moderate", "moderate"} -> 2
      [] name \in {"Severe", "severe", " Severe", "Strong"} -> 3
      [] name \in {"Extreme", "extreme", "Major", "Great"} -> 4
      [] OTHER -> 0

\* a slip: an event at the minimum itself is excluded
PassesGlobalSeverityAbove(e, thresholds) ==
    LET min_req == thresholds.global_.min_severity
    IN  IF min_req = None \/ min_req = "" THEN TRUE
        ELSE SeverityRank(e.severity) > SeverityRank(min_req)

PassesGlobalSeverity(e, thresholds) ==
    LET min_req == thresholds.global_.min_severity
    IN  IF min_req = None \/ min_req = "" THEN TRUE
        ELSE SeverityRank(e.severity) >= SeverityRank(min_req)

\* _as_earthquake_values: magnitude, and depth from the properties or, when
\* they have none, from the third coordinate of the geometry
EarthquakeValues(e) ==
    LET g == e.geometry
        \* only a Point has a number as its third coordinate
        fromGeom == IF g.type = "Point" /\ Len(g.coordinates) >= 3
                    THEN Num(g.coordinates[3] * 10) ELSE NoNum
    IN  [magnitude |-> e.properties.mag,
         depth_km |-> IF e.properties.has_depth THEN e.properties.depth ELSE fromGeom]

\* a slip: a value equal to the threshold is rejected too
PassesEarthquakeStrict(e, thr) ==
    IF ~thr.configured THEN TRUE
    ELSE LET vals == EarthquakeValues(e)
         IN  IF thr.min_magnitude.isnum /\ vals.magnitude.isnum
                /\ vals.magnitude.v <= thr.min_magnitude.v THEN FALSE
             ELSE IF thr.max_depth_km.isnum /\ vals.depth_km.isnum
                     /\ vals.depth_km.v >= thr.max_depth_km.v THEN FALSE
             ELSE TRUE

PassesEarthquakeThresholds(e, thr) ==
    IF ~thr.configured THEN TRUE
    ELSE LET vals == EarthquakeValues(e)
         IN  IF thr.min_magnitude.isnum /\ vals.magnitude.isnum
                /\ vals.magnitude.v < thr.min_magnitude.v THEN FALSE
             ELSE IF thr.max_depth_km.isnum /\ vals.depth_km.isnum
                     /\ vals.depth_km.v > thr.max_depth_km.v THEN FALSE
             ELSE TRUE

\* _weather_event_text: properties.event, else the title
WeatherEventText(e) == Strip(PyOr(e.properties.event, PyOr(e.title, "")))

\* pat.lower() in text.lower(), for the texts and patterns the model uses
ContainsLower(text, pat) ==
    \/ pat = ""
    \/ pat = "flood" /\ text \in {"Flood Warning", "Flash Flood Watch"}
    \/ pat = "watch" /\ text \in {"Flash Flood Watch"}
    \/ pat = "warning" /\ text \in {"Flood Warning", "Tornado Warning"}

MatchesAny(patterns, text) == \E i \in DOMAIN patterns : ContainsLower(text, patterns[i])

\* a slip: an include match lets the event through whatever the exclude list
PassesWeatherIncludeWins(e, thr) ==
    IF ~thr.configured THEN TRUE
    ELSE LET evt == WeatherEventText(e)
             included == thr.include_events # <<>> /\ MatchesAny(thr.include_events, evt)
         IN  IF thr.include_events # <<>> /\ ~included THEN FALSE
             ELSE IF ~included /\ MatchesAny(thr.exclude_events, evt) THEN FALSE
             ELSE IF thr.wind_gust_mps.isnum /\ e.properties.gust.isnum
                     /\ e.properties.gust.v < thr.wind_gust_mps.v THEN FALSE
             ELSE IF thr.rainfall_mm_hr.isnum /\ e.properties.rain.isnum
                     /\ e.properties.rain.v < thr.rainfall_mm_hr.v THEN FALSE
             ELSE TRUE

PassesWeatherThresholds(e, thr) ==
    IF ~thr.configured THEN TRUE
    ELSE LET evt == WeatherEventText(e)
         IN  IF thr.include_events # <<>> /\ ~MatchesAny(thr.include_events, evt) THEN FALSE
             ELSE IF thr.exclude_events # <<>> /\ MatchesAny(thr.exclude_events, evt) THEN FALSE
             ELSE IF thr.wind_gust_mps.isnum /\ e.properties.gust.isnum
                     /\ e.properties.gust.v < thr.wind_gust_mps.v THEN FALSE
             ELSE IF thr.rainfall_mm_hr.isnum /\ e.properties.rain.isnum
                     /\ e.properties.rain.v < thr.rainfall_mm_hr.v THEN FALSE
             ELSE TRUE

\* str(provider).lower()
LowerProvider(p) == IF p = "USGS" THEN "usgs" ELSE IF p = "NWS" THEN "nws" ELSE p

PassesProviderThresholds(e, thresholds) ==
    LET prov == LowerProvider(e.provider)
    IN  IF prov = "usgs" THEN PassesEarthquakeThresholds(e, thresholds.earthquake)
        ELSE IF prov = "nws" THEN PassesWeatherThresholds(e, thresholds.weather)
        ELSE TRUE

\* _as_point_from_geometry: the set holding the representative point, empty
\* when there is none
AsPointFromGeometry(geom) ==
    CASE geom.type = "Point" ->
            IF Len(geom.coordinates) >= 2
            THEN {<<geom.coordinates[1], geom.coordinates[2]>>} ELSE {}
      [] geom.type = "Polygon" ->
            IF geom.coordinates # <<>> /\ geom.coordinates[1] # <<>>
            THEN {geom.coordinates[1][1]} ELSE {}
      [] geom.type = "MultiPolygon" ->
            IF geom.coordinates # <<>> /\ geom.coordinates[1] # <<>>
               /\ geom.coordinates[1][1] # <<>>
            THEN {geom.coordinates[1][1][1]} ELSE {}
      [] OTHER -> {}

\* line 79-81 for the edge from a to b: the ray from pt crosses it.  The
\* quotient is compared exactly; the 1e-15 of the source only matters for a
\* point on the line through the edge, which the model's inputs avoid.
EdgeCrossed(pt, a, b) ==
    /\ (a[2] > pt[2]) # (b[2] > pt[2])
    /\ LET dy == b[2] - a[2]
           lhs == (pt[1] - a[1]) * dy
           rhs == (b[1] - a[1]) * (pt[2] - a[2])
       IN  IF dy > 0 THEN lhs < rhs ELSE lhs > rhs

\* _point_in_ring, lines 75-77: ring[i][0], ring[i][1] raise IndexError when
\* an entry of a ring of three or more is no pair
RingRaises(ring) == Len(ring) >= 3 /\ \E i \in DOMAIN ring : Len(ring[i]) < 2

\* the value _point_in_ring returns; it returns none when RingRaises
PointInRing(pt, ring) ==
    LET n == Len(ring)
        crossed == {i \in 1..n : EdgeCrossed(pt, ring[i], ring[(i % n) + 1])}
    IN  IF n < 3 \/ RingRaises(ring) THEN FALSE ELSE Cardinality(crossed) % 2 = 1

\* _point_in_polygon raises: in the outer ring, or in the first hole that
\* raises when the point is in the outer ring and in no hole before it
PolygonRaises(pt, polygon_coords) ==
    /\ polygon_coords # <<>>
    /\ \/ RingRaises(polygon_coords[1])
       \/ /\ PointInRing(pt, polygon_coords[1])
          /\ \E k \in 2..Len(polygon_coords) :
                /\ RingRaises(polygon_coords[k])
                /\ \A j \in 2..(k - 1) :
                      ~RingRaises(polygon_coords[j]) /\ ~PointInRing(pt, polygon_coords[j])

\* a slip: the holes are not consulted
PointInPolygonNoHoles(pt, polygon_coords) ==
    polygon_coords # <<>> /\ PointInRing(pt, polygon_coords[1])

PointInPolygon(pt, polygon_coords) ==
    IF polygon_coords = <<>> THEN FALSE
    ELSE IF ~PointInRing(pt, polygon_coords[1]) THEN FALSE
    ELSE \A k \in 2..Len(polygon_coords) : ~PointInRing(pt, polygon_coords[k])

\* _point_in_multipolygon raises: in the first polygon that raises when no
\* polygon before it holds the point
MultiPolygonRaises(pt, multipoly_coords) ==
    \E k \in DOMAIN multipoly_coords :
        /\ PolygonRaises(pt, multipoly_coords[k])
        /\ \A j \in 1..(k - 1) :
              /\ ~PolygonRaises(pt, multipoly_coords[j])
              /\ ~PointInPolygon(pt, multipoly_coords[j])

PointInMultiPolygon(pt, multipoly_coords) ==
    \E k \in DOMAIN multipoly_coords : PointInPolygon(pt, multipoly_coords[k])

\* an AOI: coordinates is a list of rings (Polygon) or of polygons
\* (MultiPolygon) when is_list, and is no list at all otherwise
Aoi(type, is_list, coordinates) ==
    [type |-> type, is_list |-> is_list, coordinates |-> coordinates]

AoiRaises(aoi, pt) ==
    IF aoi.type = "Polygon" /\ aoi.is_list THEN PolygonRaises(pt, aoi.coordinates)
    ELSE IF aoi.type = "MultiPolygon" /\ aoi.is_list
         THEN MultiPolygonRaises(pt, aoi.coordinates)
    ELSE FALSE

AoiContains(aoi, pt) ==
    IF aoi.type = "Polygon" /\ aoi.is_list THEN PointInPolygon(pt, aoi.coordinates)
    ELSE IF aoi.type = "MultiPolygon" /\ aoi.is_list
         THEN PointInMultiPolygon(pt, aoi.coordinates)
    ELSE FALSE

\* _in_aoi raises what _aoi_contains raises
InAoiRaises(e, aoi) ==
    IF aoi.type = None THEN FALSE
    ELSE LET pts == AsPointFromGeometry(e.geometry)
         IN  IF pts = {} THEN FALSE
             ELSE AoiRaises(aoi, CHOOSE pt \in pts : TRUE)

\* a slip: an event without a representative point is taken to lie outside
InAoiNeedsPoint(e, aoi) ==
    IF aoi.type = None THEN TRUE
    ELSE LET pts == AsPointFromGeometry(e.geometry)
         IN  IF pts = {} THEN FALSE
             ELSE AoiContains(aoi, CHOOSE pt \in pts : TRUE)

InAoi(e, aoi) ==
    IF aoi.type = None THEN TRUE
    ELSE LET pts == AsPointFromGeometry(e.geometry)
         IN  IF pts = {} THEN TRUE
             ELSE AoiContains(aoi, CHOOSE pt \in pts : TRUE)

\* a slip: the area of interest is not consulted
PassesRulesNoAoi(e, thresholds, aoi) ==
    /\ PassesGlobalSeverity(e, thresholds)
    /\ PassesProviderThresholds(e, thresholds)

PassesRules(e, thresholds, aoi) ==
    /\ PassesGlobalSeverity(e, thresholds)
    /\ PassesProviderThresholds(e, thresholds)
    /\ InAoi(e, aoi)

\* filter_events raises: some event that passed the two checks before reaches
\* an _in_aoi that raises
FilterRaises(evs, thresholds, aoi) ==
    \E i \in DOMAIN evs :
        /\ PassesGlobalSeverity(evs[i], thresholds)
        /\ PassesProviderThresholds(evs[i], thresholds)
        /\ InAoiRaises(evs[i], aoi)

\* filter_events
RECURSIVE FilterEvents(_, _, _)
FilterEvents(evs, thresholds, aoi) ==
    IF evs = <<>> THEN <<>>
    ELSE (IF PassesRules(Head(evs), thresholds, aoi) THEN <<Head(evs)>> ELSE <<>>)
         \o FilterEvents(Tail(evs), thresholds, aoi)

-----------------------------------------------------------------------------
(* The orchestrator: pipeline.py.                                          *)

\* a key the provider's record does not have
Absent == "<absent>"

\* dict.setdefault(key, default) seen from the reader
SetDefault(v, default) == IF v = Absent THEN default ELSE v

Props(mag, has_depth, depth, event, gust, rain) ==
    [mag |-> mag, has_depth |-> has_depth, depth |-> depth, event |-> event,
     gust |-> gust, rain |-> rain]

NoProps == Props(NoNum, FALSE, NoNum, None, NoNum, NoNum)

RunEvent(provider, id, geometry, routing_key, severity, title, properties) ==
    [provider |-> provider, id |-> id, geometry |-> geometry, updated |-> None,
     routing_key |-> routing_key, severity |-> severity, title |-> title,
     properties |-> properties]

IsDict(e) == "provider" \in DOMAIN e

\* _collect_events, line 36: some dict of the fetch lacks a required key
CollectRaises(fetch) ==
    \E i \in DOMAIN fetch : IsDict(fetch[i]) /\ fetch[i].id = Absent

\* _collect_events, lines 38-44, for one event
Normalized(e) ==
    [e EXCEPT !.routing_key = SetDefault(@, "default"),
              !.updated = SetDefault(@, None),
              !.title = SetDefault(@, ""),
              !.severity = SetDefault(@, None)]

RECURSIVE CollectEvents(_)
CollectEvents(fetch) ==
    IF fetch = <<>> THEN <<>>
    ELSE (IF IsDict(Head(fetch)) THEN <<Normalized(Head(fetch))>> ELSE <<>>)
         \o CollectEvents(Tail(fetch))

\* a slip: no event is held back as already seen
OnlyNewAll(evs, s) == evs

\* _only_new: the events is_new accepts ...
RECURSIVE OnlyNew(_, _)
OnlyNew(evs, s) ==
    IF evs = <<>> THEN <<>>
    ELSE (IF IsNew(s, Head(evs)) THEN <<Head(evs)>> ELSE <<>>)
         \o OnlyNew(Tail(evs), AfterIsNew(s, Head(evs)))

\* ... and the State its is_new calls leave behind
RECURSIVE AfterOnlyNew(_, _)
AfterOnlyNew(evs, s) ==
    IF evs = <<>> THEN s ELSE AfterOnlyNew(Tail(evs), AfterIsNew(s, Head(evs)))

\* str(x) of a routing key
StrOf(x) == IF x = None THEN "None" ELSE x

\* a slip: drop_groups is not consulted
RoutedKeyNoDrop(e, cfg) ==
    LET key == PyOr(cfg.force_group, PyOr(Strip(StrOf(e.routing_key)), "default"))
    IN  IF cfg.force_group = None /\ key \in DOMAIN cfg.merge
        THEN PyOr(cfg.merge[key], key)
        ELSE key

\* a slip: the merge target is remapped again
RoutedKeyMergeTwice(e, cfg) ==
    LET key == PyOr(cfg.force_group, PyOr(Strip(StrOf(e.routing_key)), "default"))
        Once(k) == IF k \in DOMAIN cfg.merge THEN PyOr(cfg.merge[k], k) ELSE k
    IN  IF key \in cfg.drop_groups THEN None
        ELSE IF cfg.force_group = None THEN Once(Once(key))
        ELSE key

\* _group_by_routing_key, lines 89-95: the key an event is filed under, None
\* when its group is dropped
RoutedKey(e, cfg) ==
    LET key == PyOr(cfg.force_group, PyOr(Strip(StrOf(e.routing_key)), "default"))
    IN  IF key \in cfg.drop_groups THEN None
        ELSE IF cfg.force_group = None /\ key \in DOMAIN cfg.merge
             THEN PyOr(cfg.merge[key], key)
             ELSE key

\* a slip: groups[key] = [e], which forgets the events filed before
AppendToGroupOverwrite(groups, key, e) ==
    IF \E i \in DOMAIN groups : groups[i].key = key
    THEN [i \in DOMAIN groups |->
            IF groups[i].key = key
            THEN [groups[i] EXCEPT !.evs = <<e>>] ELSE groups[i]]
    ELSE Append(groups, [key |-> key, evs |-> <<e>>])

\* groups[key].append(e) on a dict that keeps insertion order
AppendToGroup(groups, key, e) ==
    IF \E i \in DOMAIN groups : groups[i].key = key
    THEN [i \in DOMAIN groups |->
            IF groups[i].key = key
            THEN [groups[i] EXCEPT !.evs = Append(@, e)] ELSE groups[i]]
    ELSE Append(groups, [key |-> key, evs |-> <<e>>])

RECURSIVE GroupLoop(_, _, _)
GroupLoop(groups, evs, cfg) ==
    IF evs = <<>> THEN groups
    ELSE LET key == RoutedKey(Head(evs), cfg)
         IN  GroupLoop(IF key = None THEN groups
                       ELSE AppendToGroup(groups, key, Head(evs)),
                       Tail(evs), cfg)

GroupByRoutingKey(evs, cfg) == GroupLoop(<<>>, evs, cfg)

\* dict.get(key, [])
RecipientsGet(recipients, key) ==
    IF key \in DOMAIN recipients THEN recipients[key] ELSE <<>>

\* a slip: fallback_to_default is not consulted
RecipientsNoFallback(cfg, key) == RecipientsGet(cfg.recipients, key)

RecipientsForKey(cfg, key) ==
    LET recips == RecipientsGet(cfg.recipients, key)
    IN  IF recips # <<>> THEN recips
        ELSE IF key # "default" /\ cfg.routing.fallback_to_default
             THEN RecipientsGet(cfg.recipients, "default")
             ELSE <<>>

-----------------------------------------------------------------------------
(* SpecRun: two consecutive calls of pipeline.run on one state file.  The  *)
(* providers' fetch and _email.send are chosen by the environment.         *)

Quake(id, point, routing_key, mag) ==
    RunEvent("usgs", id, point, routing_key, None, "Quake",
             Props(Num(mag), FALSE, NoNum, None, NoNum, NoNum))

Alert(id, routing_key, severity) ==
    RunEvent("nws", id, NoGeom, routing_key, severity, "Flood Warning", NoProps)

RunEvents ==
    { Quake("q1", PointGeom(1, 2), "default", 20),
      Quake("q2", PointGeom(3, 4), "minor", 45),
      Alert("w1", "severe", "Severe"),
      Alert("w1", "info", "Minor"),
      Alert("w2", "severe", "Extreme"),
      Alert("t1", "test", "Minor"),
      Alert(" ", Absent, "Moderate"),
      Alert(Absent, "default", "Moderate") }

\* what a fetch can return: up to MaxFetch records, none of them twice
Fetches ==
    UNION {{f \in [1..n -> RunEvents] : \A i, j \in 1..n : f[i] = f[j] => i = j}
           : n \in 0..MaxFetch}

RunSettings ==
    [configured |-> TRUE,
     thresholds |->
        [global_ |-> [min_severity |-> None],
         earthquake |-> [configured |-> TRUE, min_magnitude |-> Num(30),
                         max_depth_km |-> NoNum],
         weather |-> [configured |-> FALSE, include_events |-> <<>>,
                      exclude_events |-> <<>>, wind_gust_mps |-> NoNum,
                      rainfall_mm_hr |-> NoNum]],
     aoi |-> NoGeom,
     routing |-> [force_group |-> None, drop_groups |-> {"test"},
                  merge |-> ("minor" :> "default"), fallback_to_default |-> FALSE],
     recipients |-> ("default" :> <<"ops@example.org">>
                     @@ "severe" :> <<"oncall@example.org">>)]

Ended ==
    {"returned", "raised_collect", "raised_filter", "raised_load", "raised_email",
     "raised_send"}

storeHist == <<hist, fromEmpty, reloaded, adds>>

\* run, lines 164-168: a new process calls run; _collect_events
Fetch(f) ==
    /\ \/ pc = "idle" /\ run = "none"
       \/ pc \in Ended /\ run = "first"
    /\ run' = IF run = "none" THEN "first" ELSE "second"
    /\ prevD' = IF pc = "returned" THEN delivered ELSE <<>>
    /\ prevOk' = (pc = "returned")
    /\ fetched' = f
    /\ st' = NoState
    /\ loaded' = NoState
    /\ fileAtLoad' = file
    /\ delivered' = <<>>
    /\ mailed' = <<>>
    /\ skipped' = <<>>
    /\ persisted' = FALSE
    /\ grouped' = <<>>
    /\ gi' = 1
    /\ sent_events' = <<>>
    /\ events_notified' = 0
    /\ result' = 0
    /\ IF CollectRaises(f)
       THEN events' = <<>> /\ pc' = "raised_collect"
       ELSE /\ events' = CollectEvents(f)
            /\ pc' = IF CollectEvents(f) = <<>> THEN "returned" ELSE "fetched"
    /\ UNCHANGED <<file, tmp, bak, savepc, envLru, lastLoad, settings>>
    /\ UNCHANGED storeHist
    /\ UNCHANGED <<raceVars, fetchVars, mailVars>>

\* run, lines 171-174: _apply_rules
Filter ==
    /\ pc = "fetched"
    /\ IF FilterRaises(events, settings.thresholds, settings.aoi)
       THEN events' = events /\ pc' = "raised_filter"
       ELSE LET out == FilterEvents(events, settings.thresholds, settings.aoi)
            IN  /\ events' = out
                /\ pc' = IF out = <<>> THEN "returned" ELSE "filtered"
    /\ UNCHANGED <<run, settings, grouped, gi, sent_events, events_notified, result,
                   fetched, loaded, fileAtLoad, delivered, mailed, skipped, persisted,
                   prevD, prevOk>>
    /\ UNCHANGED <<st, file, tmp, bak, savepc, envLru, lastLoad>>
    /\ UNCHANGED storeHist
    /\ UNCHANGED <<raceVars, fetchVars, mailVars>>

\* run, lines 177-181: State.load and _only_new
Dedup ==
    /\ pc = "filtered"
    /\ LET o == LoadOutcome(file, bak, envLru)
       IN  /\ file' = o.file
           /\ bak' = o.bak
           /\ lastLoad' = o.branch
           /\ fileAtLoad' = o.file
           /\ loaded' = o.st
           /\ IF o.branch = "raised"
              THEN st' = NoState /\ events' = events /\ pc' = "raised_load"
              ELSE /\ st' = AfterOnlyNew(events, o.st)
                   /\ events' = OnlyNew(events, o.st)
                   /\ pc' = IF OnlyNew(events, o.st) = <<>> THEN "returned" ELSE "deduped"
    /\ UNCHANGED <<run, settings, grouped, gi, sent_events, events_notified, result,
                   fetched, delivered, mailed, skipped, persisted, prevD, prevOk>>
    /\ UNCHANGED <<tmp, savepc, envLru>>
    /\ UNCHANGED storeHist
    /\ UNCHANGED <<raceVars, fetchVars, mailVars>>

\* run, lines 184-187: _group_by_routing_key
Route ==
    /\ pc = "deduped"
    /\ LET out == GroupByRoutingKey(events, settings.routing)
       IN  /\ grouped' = out
           /\ pc' = IF out = <<>> THEN "returned" ELSE "routed"
    /\ UNCHANGED <<run, settings, events, gi, sent_events, events_notified, result,
                   fetched, loaded, fileAtLoad, delivered, mailed, skipped, persisted,
                   prevD, prevOk>>
    /\ UNCHANGED <<st, file, tmp, bak, savepc, envLru, lastLoad>>
    /\ UNCHANGED storeHist
    /\ UNCHANGED <<raceVars, fetchVars, mailVars>>

\* the variables one step of _dispatch_emails leaves alone besides its own
dispatchFrame ==
    <<run, settings, events, grouped, result, fetched, loaded, fileAtLoad,
      persisted, prevD, prevOk, st, file, tmp, bak, savepc, envLru, lastLoad,
      storeHist, raceVars, fetchVars, mailVars>>

\* _dispatch_emails, line 116: settings.require_email() returns
RequireEmailOk ==
    /\ pc = "routed"
    /\ pc' = "dispatch"
    /\ UNCHANGED <<gi, sent_events, events_notified, delivered, mailed, skipped>>
    /\ UNCHANGED dispatchFrame

\* _dispatch_emails, line 116: settings.require_email() raises RuntimeError
RequireEmailRaises ==
    /\ pc = "routed"
    /\ pc' = "raised_email"
    /\ UNCHANGED <<gi, sent_events, events_notified, delivered, mailed, skipped>>
    /\ UNCHANGED dispatchFrame

AtGroup == pc = "dispatch" /\ gi <= Len(grouped)

HasRecipients(g) == g.evs # <<>> /\ RecipientsForKey(settings, g.key) # <<>>

\* a slip: the events of a skipped group are counted as sent
SkipGroupRecorded ==
    /\ AtGroup
    /\ ~HasRecipients(grouped[gi])
    /\ gi' = gi + 1
    /\ skipped' = skipped \o grouped[gi].evs
    /\ sent_events' = sent_events \o grouped[gi].evs
    /\ UNCHANGED <<pc, events_notified, delivered, mailed>>
    /\ UNCHANGED dispatchFrame

\* _dispatch_emails, lines 123-129: the group is empty or has no recipients
SkipGroup ==
    /\ AtGroup
    /\ ~HasRecipients(grouped[gi])
    /\ gi' = gi + 1
    /\ skipped' = skipped \o grouped[gi].evs
    /\ UNCHANGED <<pc, sent_events, events_notified, delivered, mailed>>
    /\ UNCHANGED dispatchFrame

\* a slip: events_notified counts the message, not its events
SendOkCountsGroup ==
    /\ AtGroup
    /\ HasRecipients(grouped[gi])
    /\ gi' = gi + 1
    /\ events_notified' = events_notified + 1
    /\ sent_events' = sent_events \o grouped[gi].evs
    /\ delivered' = delivered \o grouped[gi].evs
    /\ mailed' = Append(mailed, [key |-> grouped[gi].key,
                                 to |-> RecipientsForKey(settings, grouped[gi].key),
                                 evs |-> grouped[gi].evs])
    /\ UNCHANGED <<pc, skipped>>
    /\ UNCHANGED dispatchFrame

\* _dispatch_emails, lines 131-136: build_message and send return
SendOk ==
    /\ AtGroup
    /\ HasRecipients(grouped[gi])
    /\ gi' = gi + 1
    /\ events_notified' = events_notified + Len(grouped[gi].evs)
    /\ sent_events' = sent_events \o grouped[gi].evs
    /\ delivered' = delivered \o grouped[gi].evs
    /\ mailed' = Append(mailed, [key |-> grouped[gi].key,
                                 to |-> RecipientsForKey(settings, grouped[gi].key),
                                 evs |-> grouped[gi].evs])
    /\ UNCHANGED <<pc, skipped>>
    /\ UNCHANGED dispatchFrame

\* a slip: the state is recorded and saved although send raised
PersistAlways ==
    /\ AtGroup
    /\ HasRecipients(grouped[gi])
    /\ pc' = "raised_send"
    /\ st' = UpdateWith(st, sent_events)
    /\ file' = SavedFile(UpdateWith(st, sent_events))
    /\ UNCHANGED <<gi, sent_events, events_notified, delivered, mailed, skipped>>
    /\ UNCHANGED <<run, settings, events, grouped, result, fetched, loaded, fileAtLoad,
                   persisted, prevD, prevOk, tmp, bak, savepc, envLru, lastLoad,
                   storeHist, raceVars, fetchVars, mailVars>>

\* _dispatch_emails, line 132: _email.send raises
SendRaises ==
    /\ AtGroup
    /\ HasRecipients(grouped[gi])
    /\ pc' = "raised_send"
    /\ UNCHANGED <<gi, sent_events, events_notified, delivered, mailed, skipped>>
    /\ UNCHANGED dispatchFrame

\* a slip: the state is recorded and saved also when nothing was sent
PersistUnconditional ==
    /\ pc = "dispatch"
    /\ gi > Len(grouped)
    /\ st' = UpdateWith(st, sent_events)
    /\ file' = SavedFile(UpdateWith(st, sent_events))
    /\ tmp' = Missing
    /\ persisted' = TRUE
    /\ result' = events_notified
    /\ pc' = "returned"
    /\ UNCHANGED <<run, settings, events, grouped, gi, sent_events, events_notified,
                   fetched, loaded, fileAtLoad, delivered, mailed, skipped, prevD, prevOk>>
    /\ UNCHANGED <<bak, savepc, envLru, lastLoad>>
    /\ UNCHANGED storeHist
    /\ UNCHANGED <<raceVars, fetchVars, mailVars>>

\* run, lines 194-206: the loop is over; update_with, save, return
Persist ==
    /\ pc = "dispatch"
    /\ gi > Len(grouped)
    /\ IF sent_events # <<>>
       THEN /\ st' = UpdateWith(st, sent_events)
            /\ file' = SavedFile(UpdateWith(st, sent_events))
            /\ tmp' = Missing
            /\ persisted' = TRUE
       ELSE UNCHANGED <<st, file, tmp, persisted>>
    /\ result' = events_notified
    /\ pc' = "returned"
    /\ UNCHANGED <<run, settings, events, grouped, gi, sent_events, events_notified,
                   fetched, loaded, fileAtLoad, delivered, mailed, skipped, prevD, prevOk>>
    /\ UNCHANGED <<bak, savepc, envLru, lastLoad>>
    /\ UNCHANGED storeHist
    /\ UNCHANGED <<raceVars, fetchVars, mailVars>>

\* the environment's lru_limit is the least or the largest of LruInputs
RunInit ==
    /\ RunIdle({RunSettings})
    /\ StoreIdle({Missing, JsonFile(BadVersionDoc)})
    /\ envLru \in {1, MaxLru}

RunNext ==
    \/ \E f \in Fetches : Fetch(f)
    \/ Filter
    \/ Dedup
    \/ Route
    \/ RequireEmailOk
    \/ RequireEmailRaises
    \/ SkipGroup
    \/ SendOk
    \/ SendRaises
    \/ Persist

SpecRun == RunInit /\ [][RunNext]_vars

-----------------------------------------------------------------------------
(* Claims about the dedup state store. *)

HistEids(p) == [i \in DOMAIN hist[p] |-> hist[p][i].eid]

\* fewer than lru_limit other distinct identities of provider p were recorded
\* after the i-th recording
StillKept(p, i) ==
    LET later == {hist[p][j].eid : j \in (i + 1)..Len(hist[p])}
    IN  Cardinality(later \ {hist[p][i].eid}) < st.lru_limit

C6_LruKeepsMostRecent ==
    (IsState(st) /\ fromEmpty /\ st.lru_limit >= 1) =>
        \A p \in DOMAIN hist :
            Cardinality(Range(HistEids(p))) > st.lru_limit =>
                /\ Len(st.providers[p].ids) = st.lru_limit
                /\ st.providers[p].ids = Take(Mru(HistEids(p)), st.lru_limit)

\* C6 witness: more than L distinct identities of one provider were recorded
\* on a State that began empty, one of them twice.
C6_Witness ==
    /\ IsState(st)
    /\ fromEmpty
    /\ st.lru_limit >= 1
    /\ \E p \in DOMAIN hist :
          /\ Cardinality(Range(HistEids(p))) > st.lru_limit
          /\ Len(hist[p]) > Cardinality(Range(HistEids(p)))

C8_SaveLoadRoundTrip ==
    IsState(st) =>
        LET o == LoadOutcome(SavedFile(st), bak, envLru)
        IN  /\ o.branch = "ok"
            /\ o.st.version = st.version
            /\ o.st.lru_limit = st.lru_limit
            /\ DOMAIN o.st.providers = DOMAIN st.providers
            /\ \A p \in DOMAIN st.providers :
                  /\ o.st.providers[p].ids = st.providers[p].ids
                  /\ o.st.providers[p].last_updated = st.providers[p].last_updated

\* C8 witness: a State with two identities and a watermark for one provider
\* and an entry without identities for another was saved and loaded back.
C8_Witness ==
    /\ IsState(st)
    /\ reloaded
    /\ lastLoad = "ok"
    /\ file = SavedFile(st)
    /\ \E p \in DOMAIN st.providers :
          /\ Len(st.providers[p].ids) >= 2
          /\ st.providers[p].last_updated # None
    /\ \E p \in DOMAIN st.providers : st.providers[p].ids = <<>>

-----------------------------------------------------------------------------
(* Claims about the store's files. *)

\* C5: every step of a process that holds a State, a step of save or its
\* interruption included, leaves the state file either as it was or with the
\* complete new serialization, and never with content load cannot parse.
C5_SaveAtomic ==
    [][IsState(st) =>
          /\ file' \in {file, SavedFile(st)}
          /\ ~Unparseable(file')
          /\ LoadOutcome(file', bak', envLru).branch \notin CorruptBranches]_vars

\* C5 witness: a save was interrupted with part of the text in the temp file,
\* and the state file still holds the previous complete serialization.
C5_Witness ==
    /\ ~IsState(st)
    /\ tmp.kind = "partial"
    /\ file.kind = "json"
    /\ file \notin ForeignFiles
    /\ tmp.doc # file.doc

\* C9: a load that finds an unparseable state file returns an empty State and
\* moves the file to the backup path only when no backup exists; no step
\* changes the content of an existing backup.
C9_BackupOnce ==
    [][/\ Exists(bak) => bak' = bak
       /\ (Unparseable(file) /\ st' # st) =>
             /\ st' = FreshState(envLru)
             /\ ~Exists(file')
             /\ bak' = IF Exists(bak) THEN bak ELSE file]_vars

\* C9 witness: a second corrupt file was found while a backup with other
\* content existed.
C9_Witness ==
    /\ lastLoad = "corrupt_unlink"
    /\ st = FreshState(envLru)
    /\ bak = TextFile("")
    /\ ~Exists(file)

\* C10 as stated: State.load never raises, whatever the state file holds.
C10_LoadNeverRaises == lastLoad # "raised"

-----------------------------------------------------------------------------
(* Claims about the pipeline. *)

SameIdentity(a, b) == ProviderOf(a) = ProviderOf(b) /\ Eid(a) = Eid(b)

\* the State the load of the next run returns if the files stay as they are
NextLoaded == LoadOutcome(file, bak, envLru).st

\* the (provider, identity) pairs a State holds
Identities(s) ==
    IF ~IsState(s) THEN {}
    ELSE UNION {{<<p, s.providers[p].ids[i]>> : i \in DOMAIN s.providers[p].ids}
                : p \in DOMAIN s.providers}

\* the events update_with was called with in this run are those of the groups
\* send returned for
RecordedAreDelivered ==
    /\ persisted => sent_events = delivered
    /\ ~persisted => delivered = <<>>

RECURSIVE SentUpTo(_)
SentUpTo(k) ==
    IF k = 0 THEN <<>>
    ELSE SentUpTo(k - 1)
         \o (IF HasRecipients(grouped[k]) THEN grouped[k].evs ELSE <<>>)

\* C3: when send raises for a group, run ends with the exception, no later
\* group is sent, update_with and save are not executed, the state file is as
\* the load left it, and every event of the run, those already sent included,
\* is new in the next run.
C3_SendRaisesNothingRecorded ==
    pc = "raised_send" =>
        /\ gi <= Len(grouped)
        /\ delivered = SentUpTo(gi - 1)
        /\ ~persisted
        /\ Identities(st) = Identities(loaded)
        /\ file = fileAtLoad
        /\ \A i \in DOMAIN events : IsNew(NextLoaded, events[i])
        /\ Range(delivered) \subseteq Range(events)

\* C3 witness: send raised for the second group after an identified event of
\* the first group had been sent.
C3_Witness ==
    /\ pc = "raised_send"
    /\ \E i \in DOMAIN delivered : BaseId(delivered[i]) # ""
    /\ gi = Len(grouped)
    /\ gi > 1

\* the events of the second fetch that are not events of D
Further ==
    LET NotInD(e) == e \notin Range(prevD)
    IN  SelectSeq(CollectEvents(fetched), NotInD)

\* lru_limit of the State the runs work with
RunLruLimit == IF IsState(loaded) THEN loaded.lru_limit ELSE envLru

\* the second of two runs returned; the first returned normally and delivered
\* D, at most lru_limit events per provider; the second fetch held all of D
SecondRunOverD ==
    /\ pc = "returned"
    /\ run = "second"
    /\ prevOk
    /\ prevD # <<>>
    /\ Range(prevD) \subseteq Range(CollectEvents(fetched))
    /\ \A p \in {ProviderOf(prevD[i]) : i \in DOMAIN prevD} :
          Cardinality({i \in DOMAIN prevD : ProviderOf(prevD[i]) = p}) <= RunLruLimit

\* the run delivered exactly the events of evs, returned their count, and sent
\* no event of D
NotifiedExactly(evs) ==
    /\ Range(delivered) = Range(evs)
    /\ Len(delivered) = Len(evs)
    /\ result = Len(evs)
    /\ Range(delivered) \cap Range(prevD) = {}

\* C4 as stated: after a run that delivered D (ids non-empty, at most lru_limit
\* per provider), a second run whose fetch holds D and further events notifies
\* exactly the further events that pass the filter, returns their count and
\* sends no event of D again.
C4_SecondRunNotifiesFurther ==
    (SecondRunOverD /\ \A i \in DOMAIN prevD : prevD[i].id \notin {None, Absent, ""})
        => NotifiedExactly(FilterEvents(Further, settings.thresholds, settings.aoi))

\* a further event that passes the filter, whose identity the loaded State does
\* not hold, and whose group is neither dropped nor without recipients
Eligible(e) ==
    /\ PassesRules(e, settings.thresholds, settings.aoi)
    /\ IsNew(loaded, e)
    /\ RoutedKey(e, settings.routing) # None
    /\ RecipientsForKey(settings, RoutedKey(e, settings.routing)) # <<>>

\* C4 as amended: after a run that delivered D (ids non-empty after stripping,
\* at most lru_limit per provider), a second run that returns normally and
\* whose fetch holds D and further events notifies exactly the further events
\* that pass the filter, whose identity the saved state does not hold and whose
\* group is neither dropped nor without recipients, returns their count and
\* sends no event of D again.
C4_SecondRunNotifiesEligible ==
    (SecondRunOverD /\ \A i \in DOMAIN prevD : BaseId(prevD[i]) # "")
        => NotifiedExactly(SelectSeq(Further, Eligible))

\* C4 witness: the second run returned after notifying a further event, its
\* fetch holding the identified events the first run delivered.
C4_Witness ==
    /\ SecondRunOverD
    /\ \A i \in DOMAIN prevD : BaseId(prevD[i]) # ""
    /\ result >= 1
    /\ Len(Further) = result

-----------------------------------------------------------------------------
(* SpecRoute: one call of pipeline.run under each of several routing       *)
(* configurations, on records that include malformed ones.                 *)

RouteEvents ==
    { Alert("w1", "severe", "Severe"),
      Alert("w2", "minor", "Minor"),
      Alert("t1", "test", "Minor"),
      Alert("w3", "info", "Minor"),
      Quake("q2", PointGeom(3, 4), "default", 45),
      Alert("", " ", "Moderate"),
      Alert(Absent, "default", "Moderate"),
      RunEvent("", "x", NoGeom, "default", None, "Notice", NoProps) }

RouteFetches ==
    UNION {{f \in [1..n -> RouteEvents] : \A i, j \in 1..n : f[i] = f[j] => i = j}
           : n \in 0..MaxFetch}

Routing(force_group, drop_groups, merge, fallback_to_default) ==
    [force_group |-> force_group, drop_groups |-> drop_groups, merge |-> merge,
     fallback_to_default |-> fallback_to_default]

NoMerge == [k \in {} |-> ""]

RouteSettings ==
    { RunSettings,
      [RunSettings EXCEPT !.routing = Routing(None, {"test"}, "minor" :> "", TRUE)],
      [RunSettings EXCEPT !.routing =
          Routing("severe", {"test"}, "minor" :> "default", FALSE)],
      [RunSettings EXCEPT !.routing =
          Routing("severe", {"severe"}, "minor" :> "default", FALSE)],
      [RunSettings EXCEPT !.routing =
          Routing(None, {"test"},
                  "minor" :> "default" @@ "default" :> "severe" @@ "info" :> "test",
                  FALSE)],
      [RunSettings EXCEPT !.routing = Routing(None, {"default"}, NoMerge, TRUE),
                          !.recipients = "severe" :> <<"oncall@example.org">>] }

\* an earlier run fetched nothing and returned; the state file does not exist
RouteInit ==
    /\ pc = "returned"
    /\ run = "first"
    /\ RunLocalsIdle(RouteSettings)
    /\ StoreIdle({Missing})
    /\ envLru = MaxLru

RouteNext ==
    \/ \E f \in RouteFetches : Fetch(f)
    \/ Filter
    \/ Dedup
    \/ Route
    \/ RequireEmailOk
    \/ RequireEmailRaises
    \/ SkipGroup
    \/ SendOk
    \/ SendRaises
    \/ Persist

SpecRoute == RouteInit /\ [][RouteNext]_vars

-----------------------------------------------------------------------------
(* SpecAnon: the store fed with events that lack an id or a provider, next *)
(* to events of one provider that carry timestamps.                        *)

AnonEvents ==
    { StoreEvent(None, "a", NoGeom, None),
      StoreEvent("", "a", PointGeom(1, 2), None),
      StoreEvent("nws", " ", NoGeom, T21Z),
      StoreEvent("nws", None, NoGeom, None),
      StoreEvent("nws", "b", NoGeom, T22Naive),
      StoreEvent("nws", "c", NoGeom, T20Utc) }

AnonInit == StoreInit({Missing})

AnonNext ==
    \/ Load
    \/ \E e \in AnonEvents : CheckIsNew(e)
    \/ \E b \in Batches(AnonEvents) : Update(b)
    \/ Save

SpecAnon == AnonInit /\ [][AnonNext]_vars

-----------------------------------------------------------------------------
(* Claims about identity, provider scope and the watermark. *)

\* C11 as stated: a call of State.is_new leaves the providers mapping of the
\* State as it was: the same provider names, ids lists and last_updated.
C11_IsNewLeavesState ==
    [][\A e \in StoreEvents : CheckIsNew(e) => st'.providers = st.providers]_vars

MissingOrEmpty(x) == x \in {None, ""}

\* C12 as stated: an event whose id or whose provider is missing or empty is
\* new in every reachable State.
C12_AnonymousAlwaysNew ==
    IsState(st) =>
        \A e \in AnonEvents :
            (MissingOrEmpty(e.id) \/ MissingOrEmpty(e.provider)) => IsNew(st, e)

-----------------------------------------------------------------------------
(* Claims about collecting, routing and recipients. *)

\* C13 as stated: when a record of the fetch has a missing or empty id or
\* provider, run raises in _collect_events, before filter, load and delivery.
C13_MalformedRecordRaises ==
    (\E i \in DOMAIN fetched :
        \/ fetched[i].id \in {Absent, None, ""}
        \/ fetched[i].provider \in {Absent, None, ""})
    => pc = "raised_collect"

\* C17 as stated: with force_group configured, routing returns one group,
\* keyed by force_group, that holds every input event, whatever drop_groups
\* and merge contain.
C17_ForceGroupTakesAll ==
    [][(pc = "deduped" /\ settings.routing.force_group # None)
          => grouped' = <<[key |-> settings.routing.force_group, evs |-> events]>>]_vars

\* the routing key of an event on its own: stripped, "default" when empty
OwnKey(e) == PyOr(Strip(StrOf(e.routing_key)), "default")

\* C18: with no force_group, a collected event whose own key is in drop_groups
\* is in no group, in no message handed to send and not among the events
\* update_with is called with; the State holds its identity only if a sent
\* event has the same identity.
C18_DroppedDiscarded ==
    (settings.routing.force_group = None /\ ~CollectRaises(fetched)) =>
        \A e \in Range(CollectEvents(fetched)) :
            OwnKey(e) \in settings.routing.drop_groups =>
                /\ \A i \in DOMAIN grouped : e \notin Range(grouped[i].evs)
                /\ \A i \in DOMAIN mailed : e \notin Range(mailed[i].evs)
                /\ e \notin Range(sent_events)
                /\ (\A j \in DOMAIN sent_events : ~SameIdentity(sent_events[j], e))
                       => <<ProviderOf(e), Eid(e)>> \notin Identities(st)

\* a run saved the events it sent while an event it had routed was dropped
C18_Witness ==
    /\ pc = "returned"
    /\ persisted
    /\ settings.routing.force_group = None
    /\ \E i \in DOMAIN events :
          /\ OwnKey(events[i]) \in settings.routing.drop_groups
          /\ BaseId(events[i]) # ""

\* _group_by_routing_key has returned in this run
RouteDone ==
    \/ pc \in {"routed", "dispatch", "raised_email", "raised_send"}
    \/ pc = "returned" /\ events # <<>>

\* the recipient list of key k: recipients[k] when non-empty, else
\* recipients["default"] when k is not "default" and fallback_to_default is
\* set, else empty
ResolvedRecipients(k) ==
    LET own == IF k \in DOMAIN settings.recipients THEN settings.recipients[k] ELSE <<>>
        dflt == IF "default" \in DOMAIN settings.recipients
                THEN settings.recipients["default"] ELSE <<>>
    IN  IF own # <<>> THEN own
        ELSE IF k # "default" /\ settings.routing.fallback_to_default THEN dflt
        ELSE <<>>

C20_DeliveredIffRecipients ==
    /\ pc \in {"dispatch", "returned", "raised_send"} =>
          \A i \in DOMAIN grouped :
              i < gi => ((\E m \in DOMAIN mailed : mailed[m].key = grouped[i].key)
                            <=> ResolvedRecipients(grouped[i].key) # <<>>)
    /\ \A m \in DOMAIN mailed :
          /\ mailed[m].to # <<>>
          /\ mailed[m].to = ResolvedRecipients(mailed[m].key)
    /\ pc = "raised_send" => ResolvedRecipients(grouped[gi].key) # <<>>
    /\ (pc = "returned" /\ grouped # <<>>) => gi = Len(grouped) + 1

\* a group without recipients was passed and a later group was mailed
C20_Witness ==
    /\ pc = "returned"
    /\ \E i, j \in DOMAIN grouped :
          /\ i < j
          /\ ResolvedRecipients(grouped[i].key) = <<>>
          /\ \E m \in DOMAIN mailed : mailed[m].key = grouped[j].key

-----------------------------------------------------------------------------
(* SpecScope: the store with two providers that reuse a raw id, timestamps *)
(* in several notations, and a state file that holds watermarks.           *)

ScopeEvents ==
    { StoreEvent("nws", "a", NoGeom, T20Utc),
      StoreEvent(" nws", "b", NoGeom, T21Pacific),
      StoreEvent("nws", "c", NoGeom, "soon"),
      StoreEvent("usgs", "a", NoGeom, T21Z),
      StoreEvent(None, " ", NoGeom, T22Naive) }

\* a state file an earlier run has saved
WatermarkDoc ==
    JObj([k \in {"version", "lru_limit", "providers"} |->
            CASE k = "version" -> JInt(1)
              [] k = "lru_limit" -> JInt(MaxLru)
              [] k = "providers" ->
                    JObj([n \in {"nws", "usgs"} |->
                            JObj([f \in {"ids", "last_updated"} |->
                                    CASE f = "ids" ->
                                            IF n = "nws" THEN JList(<<JStr("b")>>)
                                            ELSE JList(<<>>)
                                      [] f = "last_updated" ->
                                            IF n = "nws" THEN JStr(T22Naive)
                                            ELSE JStr(T21Pacific)])])])

ScopeInit ==
    /\ StoreInit({Missing, JsonFile(WatermarkDoc)})
    /\ envLru = MaxLru

ScopeNext ==
    \/ Load
    \/ \E b \in Batches(ScopeEvents) : Update(b)
    \/ Save

SpecScope == ScopeInit /\ [][ScopeNext]_vars

-----------------------------------------------------------------------------
(* Claims about provider scoping and the watermark. *)

\* the ids list of provider p in State s, empty when s has no entry for p
IdsOf(s, p) ==
    IF IsState(s) /\ p \in DOMAIN s.providers THEN s.providers[p].ids ELSE <<>>

\* last_updated of provider p in State s, None when s has no entry for p
WatermarkOf(s, p) ==
    IF IsState(s) /\ p \in DOMAIN s.providers THEN s.providers[p].last_updated ELSE None

\* the latest instant among the parseable updated values of the events of
\* provider p that update_with records from a batch, NoInstant when none
BatchLatest(batch, p) ==
    SetMax({NoInstant} \cup
           {ParseIso8601(batch[i].updated) :
                i \in {j \in DOMAIN batch :
                          BaseId(batch[j]) # "" /\ ProviderOf(batch[j]) = p}})

\* the State a load returns if the files stay as they are
OnDisk == LoadOutcome(file, bak, envLru).st

\* the watermark of nws was 21:00 and an update_with that recorded the nws
\* event of 20:00 has left it there
C16_Witness ==
    /\ IsState(st)
    /\ WatermarkOf(st, "nws") = T21Pacific
    /\ IdsOf(st, "nws") # <<>>
    /\ Head(IdsOf(st, "nws")) = "a"

\* C16: update_with leaves each provider's last_updated at the later, as UTC
\* instants, of its previous value and the latest parseable updated value
\* among the batch's recorded events of that provider; the State in memory is
\* never behind the state file, so that save never moves the file's watermark
\* to an earlier instant, and load returns the watermark save has written.
C16_WatermarkIsLatest ==
    IsState(st) =>
        /\ \A b \in Batches(ScopeEvents) :
              LET after == UpdateWith(st, b)
              IN  \A p \in DOMAIN after.providers :
                      ParseIso8601(WatermarkOf(after, p)) =
                          SetMax({ParseIso8601(WatermarkOf(st, p)), BatchLatest(b, p)})
        /\ \A p \in DOMAIN st.providers :
              /\ ParseIso8601(WatermarkOf(st, p)) >= ParseIso8601(WatermarkOf(OnDisk, p))
              /\ WatermarkOf(LoadOutcome(SavedFile(st), bak, envLru).st, p)
                     = WatermarkOf(st, p)

\* what update_with has recorded for provider p
HistOf(h, p) == IF p \in DOMAIN h THEN h[p] ELSE <<>>

\* C14: an update_with that records no event of provider p leaves p's ids list
\* as it was and leaves the result of is_new as it was for every event of p,
\* also when the batch records the same raw id for another provider.
C14_OtherProvidersUntouched ==
    [][adds' > adds =>
          \A p \in {ProviderOf(e) : e \in ScopeEvents} :
              HistOf(hist', p) = HistOf(hist, p) =>
                  /\ IdsOf(st', p) = IdsOf(st, p)
                  /\ \A e \in ScopeEvents :
                        ProviderOf(e) = p => IsNew(st', e) = IsNew(st, e)]_vars

\* id "a" is recorded for nws and an event of usgs with id "a" is new
C14_Witness ==
    /\ IsState(st)
    /\ adds > 0
    /\ "a" \in Range(IdsOf(st, "nws"))
    /\ "a" \notin Range(IdsOf(st, "usgs"))
    /\ IsNew(st, StoreEvent("usgs", "a", NoGeom, T21Z))

\* the values a watermark can hold
Watermarks == {None, T20Utc, T21Z, T21Pacific, T22Naive, "soon"}

\* State s with the watermark of every provider replaced as w says
WithWatermarks(s, w) ==
    [s EXCEPT !.providers =
        [p \in DOMAIN s.providers |-> [s.providers[p] EXCEPT !.last_updated = w[p]]]]

\* C15: is_new returns the same for every event in any State that differs from
\* the current one in last_updated values only; an event whose identity is not
\* recorded is new also when its provider's watermark is newer than its
\* updated value.
C15_WatermarkNotConsulted ==
    IsState(st) =>
        /\ \A w \in [DOMAIN st.providers -> Watermarks] :
              \A e \in AnonEvents :
                  IsNew(WithWatermarks(st, w), e) = IsNew(st, e)
        /\ \A e \in AnonEvents :
              (/\ BaseId(e) # ""
               /\ Eid(e) \notin Range(IdsOf(st, ProviderOf(e)))
               /\ IsNewer(WatermarkOf(st, ProviderOf(e)), e.updated)) => IsNew(st, e)

\* the watermark of nws is 22:00 and the event of 20:00 with id "c", not
\* recorded, is new
C15_Witness ==
    /\ IsState(st)
    /\ WatermarkOf(st, "nws") = T22Naive
    /\ "c" \notin Range(IdsOf(st, "nws"))
    /\ IsNewer(WatermarkOf(st, "nws"), T20Utc)
    /\ IsNew(st, StoreEvent("nws", "c", NoGeom, T20Utc))

-----------------------------------------------------------------------------
(* SpecRules: the fetch and filter stages of one run, under thresholds and *)
(* areas of interest of every kind, well-formed and not.                   *)

Square == << <<0, 0>>, <<6, 0>>, <<6, 6>>, <<0, 6>>, <<0, 0>> >>

Hole == << <<2, 2>>, <<4, 2>>, <<4, 4>>, <<2, 4>>, <<2, 2>> >>

FarSquare == << <<7, 0>>, <<9, 0>>, <<9, 2>>, <<7, 2>>, <<7, 0>> >>

\* a ring whose entries are no coordinate pairs
BadRing == << <<0>>, <<6>>, <<3>> >>

WellFormedAois ==
    { Aoi("Polygon", TRUE, <<Square>>),
      Aoi("Polygon", TRUE, <<Square, Hole>>),
      Aoi("MultiPolygon", TRUE, << <<Square, Hole>>, <<FarSquare>> >>) }

MalformedAois ==
    { Aoi("LineString", TRUE, Square),
      Aoi("Polygon", FALSE, <<>>),
      Aoi("Polygon", TRUE, <<>>),
      Aoi("Polygon", TRUE, << << <<0, 0>>, <<6, 0>> >> >>),
      Aoi("Polygon", TRUE, <<BadRing>>),
      Aoi("Polygon", TRUE, <<Square, BadRing>>),
      Aoi("MultiPolygon", TRUE, << <<Square>>, <<BadRing>> >>) }

RulesAois == {NoGeom} \cup WellFormedAois \cup MalformedAois

Thr(min_severity, earthquake, weather) ==
    [global_ |-> [min_severity |-> min_severity],
     earthquake |-> earthquake, weather |-> weather]

NoQuakeThr == [configured |-> FALSE, min_magnitude |-> NoNum, max_depth_km |-> NoNum]

NoWeatherThr ==
    [configured |-> FALSE, include_events |-> <<>>, exclude_events |-> <<>>,
     wind_gust_mps |-> NoNum, rainfall_mm_hr |-> NoNum]

QuakeThr == [configured |-> TRUE, min_magnitude |-> Num(30), max_depth_km |-> Num(100)]

\* min_magnitude alone
MagThr == [configured |-> TRUE, min_magnitude |-> Num(30), max_depth_km |-> NoNum]

WeatherThr ==
    [configured |-> TRUE, include_events |-> <<"flood">>, exclude_events |-> <<"watch">>,
     wind_gust_mps |-> Num(100), rainfall_mm_hr |-> NoNum]

\* an exclude list alone
ExcludeThr ==
    [configured |-> TRUE, include_events |-> <<>>, exclude_events |-> <<"warning">>,
     wind_gust_mps |-> NoNum, rainfall_mm_hr |-> NoNum]

RulesThresholds ==
    { Thr(None, NoQuakeThr, NoWeatherThr),
      Thr(None, QuakeThr, NoWeatherThr),
      Thr(None, MagThr, NoWeatherThr),
      Thr(None, NoQuakeThr, WeatherThr),
      Thr(None, NoQuakeThr, ExcludeThr),
      Thr("Moderate", NoQuakeThr, NoWeatherThr),
      Thr("bogus", QuakeThr, WeatherThr) }

RulesSettings ==
    {[RunSettings EXCEPT !.thresholds = t, !.aoi = a] :
        t \in RulesThresholds, a \in RulesAois}

RulesEvents ==
    { RunEvent("usgs", "q1", PointGeom(1, 1), "default", "Light", "M 2.0",
               Props(Num(20), FALSE, NoNum, None, NoNum, NoNum)),
      RunEvent("usgs", "q2", PointGeom(3, 3), "default", "Moderate", "M 3.0",
               Props(Num(30), TRUE, Num(100), None, NoNum, NoNum)),
      RunEvent("usgs", "q3", [type |-> "Point", coordinates |-> <<8, 1, 20>>],
               "default", "Strong", "M 4.5",
               Props(Num(45), FALSE, NoNum, None, NoNum, NoNum)),
      RunEvent("usgs", "q4", NoGeom, "default", None, "M ?", NoProps),
      RunEvent("nws", "w1",
               PolygonGeom(<< << <<1, 1>>, <<2, 1>>, <<2, 2>>, <<1, 1>> >> >>),
               "default", "Severe", "Alert",
               Props(NoNum, FALSE, NoNum, "Flood Warning", NoNum, NoNum)),
      RunEvent("nws", "w2", NoGeom, "default", "Minor", "Flash Flood Watch", NoProps),
      RunEvent("nws", "w3", PointGeom(3, 3), "default", "Extreme", "",
               Props(NoNum, FALSE, NoNum, "Tornado Warning", NoNum, NoNum)),
      RunEvent("nws", "w4",
               [type |-> "LineString", coordinates |-> << <<1, 1>>, <<8, 1>> >>],
               "default", "bogus", "Alert",
               Props(NoNum, FALSE, NoNum, "Flood Warning", Num(50), NoNum)),
      RunEvent("fema", "x1", PointGeom(1, 1), "default", "Moderate", "Notice", NoProps) }

\* what a fetch can return: up to MaxFetch records, a record possibly twice
RulesFetches == UNION {[1..n -> RulesEvents] : n \in 0..MaxFetch}

\* an earlier run fetched nothing and returned
RulesInit ==
    /\ pc = "returned"
    /\ run = "first"
    /\ RunLocalsIdle(RulesSettings)
    /\ StoreIdle({Missing})
    /\ envLru = MaxLru

RulesNext ==
    \/ \E f \in RulesFetches : Fetch(f)
    \/ Filter

SpecRules == RulesInit /\ [][RulesNext]_vars

-----------------------------------------------------------------------------
(* Claims about one run as a whole: delivery, the return value, the order  *)
(* of the stages.                                                          *)

\* the routing rules keep event e: its key, force_group when that is set, is
\* not in drop_groups
Survives(e) ==
    LET k == IF settings.routing.force_group # None
             THEN settings.routing.force_group ELSE OwnKey(e)
    IN  k \notin settings.routing.drop_groups

\* the positions (group, index) at which event e is filed
Places(e) ==
    {p \in UNION {{<<i, j>> : j \in DOMAIN grouped[i].evs} : i \in DOMAIN grouped} :
        grouped[p[1]].evs[p[2]] = e}

\* the messages handed to send for group i
MessagesFor(i) ==
    {m \in DOMAIN mailed :
        mailed[m].key = grouped[i].key /\ mailed[m].evs = grouped[i].evs}

\* C21: once routing has returned, the groups have distinct keys, none is
\* empty, and every event that came out of dedup and is kept by the routing
\* rules is filed at exactly one place; in a run that returned after the loop,
\* exactly one message was handed to send for every group with resolved
\* recipients, none for any other group, and there are no further messages.
C21_OneMessagePerGroup ==
    /\ RouteDone =>
          /\ \A i, j \in DOMAIN grouped : grouped[i].key = grouped[j].key => i = j
          /\ \A i \in DOMAIN grouped :
                grouped[i].evs # <<>> /\ Range(grouped[i].evs) \subseteq Range(events)
          /\ \A e \in Range(events) :
                Cardinality(Places(e)) = IF Survives(e) THEN 1 ELSE 0
    /\ (pc = "returned" /\ grouped # <<>>) =>
          /\ \A i \in DOMAIN grouped :
                Cardinality(MessagesFor(i)) =
                    IF ResolvedRecipients(grouped[i].key) # <<>> THEN 1 ELSE 0
          /\ \A m \in DOMAIN mailed : \E i \in DOMAIN grouped : m \in MessagesFor(i)
          /\ Len(mailed) =
                Cardinality({i \in DOMAIN grouped :
                                ResolvedRecipients(grouped[i].key) # <<>>})

\* a run returned after one message that carries two events filed under one key
C21_Witness ==
    /\ pc = "returned"
    /\ Len(grouped) = 1
    /\ Len(mailed) = 1
    /\ Len(mailed[1].evs) = 2
    /\ mailed[1].evs = events

\* the number of events in the messages ms
RECURSIVE EventsIn(_)
EventsIn(ms) == IF ms = <<>> THEN 0 ELSE Len(Head(ms).evs) + EventsIn(Tail(ms))

\* C22: when run has returned, its value is not negative, is the number of
\* events in the messages send returned for, is the number of events
\* update_with was called with (none when it was not called), and is 0 when
\* no message was sent.
C22_ReturnsEventsNotified ==
    pc = "returned" =>
        /\ result >= 0
        /\ result = EventsIn(mailed)
        /\ result = IF persisted THEN Len(sent_events) ELSE 0
        /\ persisted <=> result > 0
        /\ (mailed = <<>>) => result = 0

\* a run returned 2 for one message with two events
C22_Witness ==
    /\ pc = "returned"
    /\ persisted
    /\ result = 2
    /\ Len(mailed) = 1

\* what the filter stage of this run yields
FilterYield ==
    FilterEvents(CollectEvents(fetched), settings.thresholds, settings.aoi)

\* the stages a state of a run has behind it
StagesInOrder ==
    /\ run = "none" => loaded = NoState /\ mailed = <<>> /\ ~persisted
    /\ loaded # NoState =>
          ~CollectRaises(fetched) /\ FilterYield # <<>>
    /\ (run # "none" /\ loaded = NoState) =>
          file = fileAtLoad /\ mailed = <<>> /\ grouped = <<>>
    /\ mailed # <<>> =>
          IsState(loaded) /\ OnlyNew(FilterYield, loaded) # <<>> /\ grouped # <<>>
    /\ persisted =>
          pc = "returned" /\ gi > Len(grouped) /\ mailed # <<>> /\ result > 0
    /\ (pc = "returned" /\ result = 0) => ~persisted /\ file = fileAtLoad

\* what one step of a run may repeat
StagesOnce ==
    /\ (loaded # NoState /\ loaded' # NoState) =>
          loaded' = loaded /\ fileAtLoad' = fileAtLoad
    /\ file' # file => pc = "filtered" \/ (pc = "dispatch" /\ ~persisted /\ persisted')
    /\ (persisted /\ persisted') => file' = file /\ mailed' = mailed
    /\ mailed' # mailed => mailed' = <<>> \/ (pc = "dispatch" /\ ~persisted)

\* C23: State.load is called only when fetch and filter have yielded events,
\* at most once in a run and before any send; send is called only when dedup
\* and routing have yielded events; the state file is written by save at most
\* once in a run, after the loop over the groups has ended and at least one
\* send has returned, and never in a run that returns 0, which leaves the file
\* as load left it.
C23_StagesInOrder == []StagesInOrder /\ [][StagesOnce]_vars

\* a second run loaded the state the first run saved, found nothing new and
\* returned 0 without a send
C23_Witness ==
    /\ run = "second"
    /\ pc = "returned"
    /\ prevD # <<>>
    /\ IsState(loaded)
    /\ FilterYield # <<>>
    /\ events = <<>>
    /\ mailed = <<>>
    /\ result = 0

-----------------------------------------------------------------------------
(* Claims about the rules engine. *)

\* the list filter_events is called with in this run
FilterInput == CollectEvents(fetched)

\* filter_events has returned in this run
FilterDone == run = "second" /\ fetched # <<>> /\ pc \in {"filtered", "returned"}

\* the first two checks of filter_events
PassesFirstTwo(e) ==
    /\ PassesGlobalSeverity(e, settings.thresholds)
    /\ PassesProviderThresholds(e, settings.thresholds)

\* the positions of the input whose event passes the three checks
KeptAt ==
    {i \in DOMAIN FilterInput :
        PassesFirstTwo(FilterInput[i]) /\ InAoi(FilterInput[i], settings.aoi)}

\* the k-th smallest member of a set of positions
Kth(I, k) == CHOOSE i \in I : Cardinality({j \in I : j <= i}) = k

\* C24: when filter_events has returned, its result holds the input events at
\* the positions that pass the three checks, in input order and an event as
\* often as it occurs there, and no event that passed the first two checks has
\* an AOI check that raises; filter_events raises exactly when some event that
\* passed the first two checks has one; the input list is left as it was.
C24_FilterKeepsPassing ==
    /\ [](FilterDone =>
            /\ Len(events) = Cardinality(KeptAt)
            /\ \A k \in DOMAIN events : events[k] = FilterInput[Kth(KeptAt, k)]
            /\ \A i \in DOMAIN FilterInput :
                  InAoiRaises(FilterInput[i], settings.aoi)
                      => ~PassesFirstTwo(FilterInput[i]))
    /\ [](pc = "raised_filter" =>
            \E i \in DOMAIN FilterInput :
                PassesFirstTwo(FilterInput[i]) /\ InAoiRaises(FilterInput[i], settings.aoi))
    /\ [][pc = "fetched" => fetched' = fetched]_vars

\* the filter returned both occurrences of an event that lies in the area of
\* interest and dropped nothing
C24_Witness ==
    /\ FilterDone
    /\ settings.aoi \in WellFormedAois
    /\ settings.thresholds.earthquake.configured
    /\ Len(FilterInput) = 2
    /\ FilterInput[1] = FilterInput[2]
    /\ events = FilterInput

\* C25 as stated: under an area of interest that is configured but is no
\* well-formed Polygon or MultiPolygon, filter_events does not raise and its
\* result holds no event that has a representative point.
C25_MalformedAoiExcludes ==
    settings.aoi \in MalformedAois =>
        /\ pc # "raised_filter"
        /\ FilterDone =>
              \A k \in DOMAIN events : AsPointFromGeometry(events[k].geometry) = {}

\* strictly inside the axis-parallel box with corners (lo, lo2) and (hi, hi2)
InBox(pt, lo, hi, lo2, hi2) == lo < pt[1] /\ pt[1] < hi /\ lo2 < pt[2] /\ pt[2] < hi2

InSquare(pt) == InBox(pt, 0, 6, 0, 6)

InHole(pt) == InBox(pt, 2, 4, 2, 4)

InFarSquare(pt) == InBox(pt, 7, 9, 0, 2)

\* where a point lies according to the claim, for the three well-formed AOIs
Contained(aoi, pt) ==
    CASE aoi = Aoi("Polygon", TRUE, <<Square>>) -> InSquare(pt)
      [] aoi = Aoi("Polygon", TRUE, <<Square, Hole>>) -> InSquare(pt) /\ ~InHole(pt)
      [] aoi = Aoi("MultiPolygon", TRUE, << <<Square, Hole>>, <<FarSquare>> >>) ->
            (InSquare(pt) /\ ~InHole(pt)) \/ InFarSquare(pt)

\* the input events that passed the first two checks and have a
\* representative point
Located ==
    {i \in DOMAIN FilterInput :
        /\ PassesFirstTwo(FilterInput[i])
        /\ AsPointFromGeometry(FilterInput[i].geometry) # {}}

PointOf(i) == CHOOSE pt \in AsPointFromGeometry(FilterInput[i].geometry) : TRUE

InResult(e) == \E k \in DOMAIN events : events[k] = e

\* C26: under a Polygon AOI the filter keeps an event with a representative
\* point exactly when the point is inside the outer ring and inside no hole,
\* and under a MultiPolygon AOI exactly when some constituent polygon holds it.
C26_ContainmentByRings ==
    (FilterDone /\ settings.aoi \in WellFormedAois) =>
        \A i \in Located :
            InResult(FilterInput[i]) <=> Contained(settings.aoi, PointOf(i))

\* under the square with a hole the filter kept an event inside the square
\* and dropped one inside the hole
C26_Witness ==
    /\ FilterDone
    /\ settings.aoi = Aoi("Polygon", TRUE, <<Square, Hole>>)
    /\ \E i, j \in Located :
          /\ InSquare(PointOf(i)) /\ ~InHole(PointOf(i)) /\ InResult(FilterInput[i])
          /\ InHole(PointOf(j)) /\ ~InResult(FilterInput[j])

\* the input positions whose event has no representative point
Unlocated ==
    {i \in DOMAIN FilterInput : AsPointFromGeometry(FilterInput[i].geometry) = {}}

\* C27: when filter_events has returned, its result holds every event that
\* passed the first two checks and has no representative point, whatever the
\* AOI, and every event that passed them when no AOI is configured; a raise of
\* the filter is never due to such an event.
C27_NoPointPassesAoi ==
    /\ FilterDone =>
          \A i \in DOMAIN FilterInput :
              (PassesFirstTwo(FilterInput[i]) /\ (i \in Unlocated \/ settings.aoi = NoGeom))
                  => InResult(FilterInput[i])
    /\ pc = "raised_filter" =>
          /\ settings.aoi # NoGeom
          /\ \E i \in Located : i \notin Unlocated

\* under an AOI whose ring holds no coordinate pairs the filter kept an event
\* without geometry and one whose geometry is a LineString
C27_Witness ==
    /\ FilterDone
    /\ settings.aoi = Aoi("Polygon", TRUE, <<BadRing>>)
    /\ \E i, j \in Unlocated :
          /\ FilterInput[i].geometry = NoGeom
          /\ FilterInput[j].geometry.type = "LineString"
          /\ InResult(FilterInput[i]) /\ InResult(FilterInput[j])

\* reachable too: with no AOI configured the filter kept an event that has a point
NoAoiKeepsLocated ==
    /\ FilterDone
    /\ settings.aoi = NoGeom
    /\ \E i \in Located : InResult(FilterInput[i])

\* the magnitude and the depth in km of the model's earthquakes, in tenths;
\* the empty set where the event carries none
Magnitude(e) ==
    CASE e.id = "q1" -> {20} [] e.id = "q2" -> {30} [] e.id = "q3" -> {45} [] OTHER -> {}

DepthKm(e) ==
    CASE e.id = "q2" -> {100} [] e.id = "q3" -> {200} [] OTHER -> {}

\* what the claim says the earthquake thresholds reject
QuakeRejected(e, thr) ==
    \/ thr.min_magnitude.isnum /\ \E m \in Magnitude(e) : m < thr.min_magnitude.v
    \/ thr.max_depth_km.isnum /\ \E d \in DepthKm(e) : d > thr.max_depth_km.v

\* the usgs events of the input that passed the severity check and that the
\* AOI check lets through
QuakesToJudge ==
    {i \in DOMAIN FilterInput :
        /\ FilterInput[i].provider = "usgs"
        /\ PassesGlobalSeverity(FilterInput[i], settings.thresholds)
        /\ InAoi(FilterInput[i], settings.aoi)}

\* C28: with earthquake thresholds configured, a usgs event that is not
\* excluded for severity or area is dropped exactly when it carries a
\* magnitude below min_magnitude or a depth above max_depth_km; an event that
\* carries neither, or a value equal to the threshold, is kept.
C28_QuakeThresholds ==
    (FilterDone /\ settings.thresholds.earthquake.configured) =>
        \A i \in QuakesToJudge :
            InResult(FilterInput[i])
                <=> ~QuakeRejected(FilterInput[i], settings.thresholds.earthquake)

\* with min_magnitude 3.0 alone the filter dropped the event of magnitude 2.0
\* and kept the one of magnitude 4.5
C28_Witness ==
    /\ FilterDone
    /\ settings.thresholds.earthquake = MagThr
    /\ \E i, j \in QuakesToJudge :
          /\ Magnitude(FilterInput[i]) = {20} /\ ~InResult(FilterInput[i])
          /\ Magnitude(FilterInput[j]) = {45} /\ InResult(FilterInput[j])

\* reachable too: with max_depth_km 10.0 the event at the threshold in
\* magnitude and depth was kept and the one without either value as well
QuakeAtThresholdKept ==
    /\ FilterDone
    /\ settings.thresholds.earthquake = QuakeThr
    /\ \E i, j \in QuakesToJudge :
          /\ Magnitude(FilterInput[i]) = {30} /\ DepthKm(FilterInput[i]) = {100}
          /\ InResult(FilterInput[i])
          /\ Magnitude(FilterInput[j]) = {} /\ InResult(FilterInput[j])

\* the patterns, in lower case, that the category text of the model's
\* weather events contains
Mentions(e) ==
    CASE e.id = "w1" -> {"flood", "warning"}
      [] e.id = "w2" -> {"flood", "watch"}
      [] e.id = "w3" -> {"warning"}
      [] e.id = "w4" -> {"flood", "warning"}
      [] OTHER -> {}

\* the categorical check as the claim states it
CategoricalPass(e, thr) ==
    /\ \/ thr.include_events = <<>>
       \/ \E k \in DOMAIN thr.include_events : thr.include_events[k] \in Mentions(e)
    /\ ~\E k \in DOMAIN thr.exclude_events : thr.exclude_events[k] \in Mentions(e)

\* the one weather event that carries a wind gust, of 5.0 m/s
GustRejected(e, thr) == thr.wind_gust_mps.isnum /\ e.id = "w4" /\ 50 < thr.wind_gust_mps.v

\* the nws events of the input that passed the severity check and that the
\* AOI check lets through
AlertsToJudge ==
    {i \in DOMAIN FilterInput :
        /\ FilterInput[i].provider = "nws"
        /\ PassesGlobalSeverity(FilterInput[i], settings.thresholds)
        /\ InAoi(FilterInput[i], settings.aoi)}

\* C29: with weather thresholds configured, an nws event that is not excluded
\* for severity or area is kept exactly when its category text contains an
\* include pattern (or there is none), contains no exclude pattern, and its
\* wind gust, if it carries one, is not below the minimum.
C29_WeatherCategories ==
    (FilterDone /\ settings.thresholds.weather.configured) =>
        \A i \in AlertsToJudge :
            InResult(FilterInput[i])
                <=> /\ CategoricalPass(FilterInput[i], settings.thresholds.weather)
                    /\ ~GustRejected(FilterInput[i], settings.thresholds.weather)

\* under include "flood" and exclude "watch" the filter kept "Flood Warning"
\* and dropped "Flash Flood Watch", which matches both lists
C29_Witness ==
    /\ FilterDone
    /\ settings.thresholds.weather = WeatherThr
    /\ \E i, j \in AlertsToJudge :
          /\ FilterInput[i].id = "w1" /\ InResult(FilterInput[i])
          /\ FilterInput[j].id = "w2" /\ ~InResult(FilterInput[j])

\* reachable too: with an exclude list alone the event without a wind gust
\* that matches no exclude pattern was kept
ExcludeAloneKeeps ==
    /\ FilterDone
    /\ settings.thresholds.weather = ExcludeThr
    /\ \E i \in AlertsToJudge : FilterInput[i].id = "w2" /\ InResult(FilterInput[i])

\* the rank on the 0-4 scale of the model's events and of the configured
\* minima, written out event by event
RankOf(e) ==
    CASE e.id \in {"q1", "w2"} -> 1
      [] e.id \in {"q2", "x1"} -> 2
      [] e.id \in {"q3", "w1"} -> 3
      [] e.id = "w3" -> 4
      [] OTHER -> 0

MinRank == IF settings.thresholds.global_.min_severity = "Moderate" THEN 2 ELSE 0

\* the input events that the provider thresholds and the AOI check let through
SeverityToJudge ==
    {i \in DOMAIN FilterInput :
        /\ PassesProviderThresholds(FilterInput[i], settings.thresholds)
        /\ InAoi(FilterInput[i], settings.aoi)}

\* C30: with a global minimum configured, an event that is not excluded by
\* provider thresholds or area is kept exactly when its rank is at least the
\* rank of the minimum; so events of equal rank fare alike whatever their
\* provider, a kept event implies that every event of equal or higher rank is
\* kept, and rank 0 is dropped under a minimum of rank 1 or more.
C30_SeverityByRank ==
    (FilterDone /\ settings.thresholds.global_.min_severity # None) =>
        /\ \A i \in SeverityToJudge :
              InResult(FilterInput[i]) <=> RankOf(FilterInput[i]) >= MinRank
        /\ \A i, j \in SeverityToJudge :
              (InResult(FilterInput[i]) /\ RankOf(FilterInput[j]) >= RankOf(FilterInput[i]))
                  => InResult(FilterInput[j])
        /\ \A i \in SeverityToJudge :
              (RankOf(FilterInput[i]) = 0 /\ MinRank >= 1) => ~InResult(FilterInput[i])

\* under the minimum "Moderate" the filter kept two events of rank 2 from
\* different providers
C30_Witness ==
    /\ FilterDone
    /\ settings.thresholds.global_.min_severity = "Moderate"
    /\ \E i, j \in SeverityToJudge :
          /\ FilterInput[i].provider # FilterInput[j].provider
          /\ RankOf(FilterInput[i]) = 2 /\ RankOf(FilterInput[j]) = 2
          /\ InResult(FilterInput[i]) /\ InResult(FilterInput[j])

\* reachable too: under "Moderate" an event without severity was dropped and
\* one of rank 1 as well
LowRanksDropped ==
    /\ FilterDone
    /\ settings.thresholds.global_.min_severity = "Moderate"
    /\ \E i, j \in SeverityToJudge :
          /\ FilterInput[i].severity = None /\ ~InResult(FilterInput[i])
          /\ RankOf(FilterInput[j]) = 1 /\ ~InResult(FilterInput[j])

\* reachable too: under an unrecognized minimum, of rank 0, an event of
\* unrecognized severity was kept
UnknownMinimumKeepsAll ==
    /\ FilterDone
    /\ settings.thresholds.global_.min_severity = "bogus"
    /\ \E i \in SeverityToJudge : RankOf(FilterInput[i]) = 0 /\ InResult(FilterInput[i])

-----------------------------------------------------------------------------
(* SpecRace: two runs on one state file whose State.save calls overlap.    *)
(* Both derive the same temp path from the state path (line 294).  A file  *)
(* is what a name refers to: open(tmp, "w") empties the file the name tmp  *)
(* refers to or creates one, os.replace makes the name of the state file   *)
(* refer to it, and a process that has it open goes on writing to it.      *)

RaceProcs == {"A", "B"}

\* the State a run is about to save: the loaded one after update_with
RaceStates == {UpdateWith(FreshState(MaxLru), <<e>>) : e \in FsEvents}

\* a run: its State, its position in save and the name its open file has now
Racer(s, at, fh) == [st |-> s, pc |-> at, fh |-> fh]

\* the content of a file after text is written at its beginning, line 299:
\* what was there beyond the end of text stays, so a longer text of another
\* State leaves a mixture; the model does not keep lengths and allows both
Overwritten(f, text) ==
    IF f = TextFile("") \/ f = text THEN {text} ELSE {text, MixedFile}

\* line 298: open(tmp, "w")
RaceOpen(p) ==
    /\ racers[p].pc = "idle"
    /\ tmp' = TextFile("")
    /\ racers' = [racers EXCEPT ![p] = Racer(@.st, "opened", "tmp")]
    /\ UNCHANGED <<st, file, bak, savepc, envLru, lastLoad, hist, fromEmpty, reloaded, adds>>
    /\ UNCHANGED <<runVars, fetchVars, mailVars>>

\* lines 299-301: write, flush, fsync, and the file is closed
RaceWrite(p) ==
    /\ racers[p].pc = "opened"
    /\ \/ /\ racers[p].fh = "tmp"
          /\ tmp' \in Overwritten(tmp, SavedFile(racers[p].st))
          /\ file' = file
       \/ /\ racers[p].fh = "file"
          /\ file' \in Overwritten(file, SavedFile(racers[p].st))
          /\ tmp' = tmp
    /\ racers' = [racers EXCEPT ![p] = Racer(@.st, "synced", "none")]
    /\ UNCHANGED <<st, bak, savepc, envLru, lastLoad, hist, fromEmpty, reloaded, adds>>
    /\ UNCHANGED <<runVars, fetchVars, mailVars>>

\* the name of a run's open file after os.replace(tmp, path) by the other
\* run; each run saves once, so a file that has the name of the state file
\* keeps it
Renamed(fh) == IF fh = "tmp" THEN "file" ELSE fh

\* line 303: os.replace(tmp, path)
RaceReplace(p) ==
    /\ racers[p].pc = "synced"
    /\ Exists(tmp)
    /\ file' = tmp
    /\ tmp' = Missing
    /\ racers' = [q \in RaceProcs |->
                    IF q = p THEN Racer(racers[q].st, "saved", "none")
                    ELSE Racer(racers[q].st, racers[q].pc, Renamed(racers[q].fh))]
    /\ UNCHANGED <<st, bak, savepc, envLru, lastLoad, hist, fromEmpty, reloaded, adds>>
    /\ UNCHANGED <<runVars, fetchVars, mailVars>>

\* line 303 raises FileNotFoundError: the other run has renamed the temp file
RaceReplaceRaises(p) ==
    /\ racers[p].pc = "synced"
    /\ ~Exists(tmp)
    /\ racers' = [racers EXCEPT ![p] = Racer(@.st, "raised", "none")]
    /\ UNCHANGED <<st, file, tmp, bak, savepc, envLru, lastLoad, hist, fromEmpty,
                   reloaded, adds>>
    /\ UNCHANGED <<runVars, fetchVars, mailVars>>

\* both runs have loaded and recorded; the state file is absent or holds the
\* State one earlier run saved
RaceInit ==
    /\ RunIdle({NoSettings})
    /\ racers \in [RaceProcs -> {Racer(s, "idle", "none") : s \in RaceStates}]
    /\ http = HttpIdle
    /\ mail = NoMail
    /\ st = NoState
    /\ file \in {Missing} \cup {SavedFile(s) : s \in RaceStates}
    /\ tmp = Missing
    /\ bak = Missing
    /\ savepc = "idle"
    /\ envLru = MaxLru
    /\ lastLoad = "none"
    /\ hist = NoHist
    /\ fromEmpty = FALSE
    /\ reloaded = FALSE
    /\ adds = 0

RaceNext ==
    \E p \in RaceProcs :
        \/ RaceOpen(p)
        \/ RaceWrite(p)
        \/ RaceReplace(p)
        \/ RaceReplaceRaises(p)

SpecRace == RaceInit /\ [][RaceNext]_vars

-----------------------------------------------------------------------------
(* SpecTwice: one call of pipeline.run on a fetch in which a record, or    *)
(* the provider and id of a record, occurs more than once.                 *)

TwiceEvents ==
    { Alert("w1", "severe", "Severe"),
      Alert("w1", "default", "Severe"),
      Alert("w3", "info", "Minor"),
      Quake("q2", PointGeom(3, 4), "default", 45) }

\* what a fetch can return: up to MaxFetch records, a record possibly twice
TwiceFetches == UNION {[1..n -> TwiceEvents] : n \in 0..MaxFetch}

\* an earlier run fetched nothing and returned; the state file does not exist
TwiceInit ==
    /\ pc = "returned"
    /\ run = "first"
    /\ RunLocalsIdle({RunSettings})
    /\ StoreIdle({Missing})
    /\ envLru \in LruInputs

TwiceNext ==
    \/ \E f \in TwiceFetches : Fetch(f)
    \/ Filter
    \/ Dedup
    \/ Route
    \/ RequireEmailOk
    \/ RequireEmailRaises
    \/ SkipGroup
    \/ SendOk
    \/ SendRaises
    \/ Persist

SpecTwice == TwiceInit /\ [][TwiceNext]_vars

-----------------------------------------------------------------------------
(* SpecDoc: the store over documents that carry unknown fields or lack     *)
(* known ones, with DISASTER_ALERTS_STATE_LRU set, unset or unreadable.    *)

DEFAULT_LRU_LIMIT == 5000

\* _env_lru_limit: int() of the variable's text, the default when the
\* variable is not set or int() raises
EnvLruLimit(text) ==
    IF text = Absent THEN DEFAULT_LRU_LIMIT
    ELSE IF IntConvertible(JStr(text)) THEN IntOf(JStr(text))
    ELSE DEFAULT_LRU_LIMIT

EnvTexts == {Absent, "1", "2", "many"}

\* unknown fields at the top and in a provider, which also lacks
\* last_updated; no lru_limit
ExtrasDoc ==
    JObj([k \in {"version", "providers", "schema", "written_by"} |->
            CASE k = "version" -> JInt(1)
              [] k = "schema" -> JObj([f \in {"rev"} |-> JInt(3)])
              [] k = "written_by" -> JStr("v9")
              [] k = "providers" ->
                    JObj([n \in {"nws"} |->
                            JObj([f \in {"ids", "etag"} |->
                                    IF f = "ids" THEN JList(<<JStr("b"), JStr("a")>>)
                                    ELSE JStr("W/1")])])])

\* lru_limit and an unknown field, no providers
NoProvidersDoc ==
    JObj([k \in {"lru_limit", "note"} |->
            IF k = "lru_limit" THEN JInt(1) ELSE JNull])

\* a document with the given lru_limit and the nws identities a, b
LimitDoc(limit) ==
    JObj([k \in {"lru_limit", "providers"} |->
            IF k = "lru_limit" THEN JInt(limit)
            ELSE JObj([n \in {"nws"} |->
                         JObj([f \in {"ids"} |-> JList(<<JStr("a"), JStr("b")>>)])])])

DocFiles ==
    {JsonFile(BareDoc), JsonFile(ExtrasDoc), JsonFile(NoProvidersDoc),
     JsonFile(OverlongDoc), JsonFile(LimitDoc(0)), JsonFile(LimitDoc(-1)),
     JsonFile(LimitDoc(2))}

DocInit ==
    /\ RunIdle({NoSettings})
    /\ racers = NoRacers
    /\ http = HttpIdle
    /\ mail = NoMail
    /\ st = NoState
    /\ file \in {Missing} \cup DocFiles
    /\ tmp = Missing
    /\ bak = Missing
    /\ savepc = "idle"
    /\ envLru \in {EnvLruLimit(x) : x \in EnvTexts}
    /\ lastLoad = "none"
    /\ hist = NoHist
    /\ fromEmpty = FALSE
    /\ reloaded = FALSE
    /\ adds = 0

DocNext ==
    \/ Load
    \/ \E e \in FsEvents : Update(<<e>>)
    \/ Save

SpecDoc == DocInit /\ [][DocNext]_vars

-----------------------------------------------------------------------------
(* Claims about documents State.load reads.                                *)

TopLevelKnown == {"version", "providers", "lru_limit"}

ProviderKnown == {"ids", "last_updated"}

\* a provider entry without its unknown fields
KnownOfProvider(v) ==
    IF v.t = "obj"
    THEN JObj([f \in DOMAIN v.fields \cap ProviderKnown |-> v.fields[f]])
    ELSE v

\* a document without its unknown top-level and per-provider fields
KnownOf(doc) ==
    JObj([k \in DOMAIN doc.fields \cap TopLevelKnown |->
            IF k = "providers" /\ doc.fields[k].t = "obj"
            THEN JObj([n \in DOMAIN doc.fields[k].fields |->
                          KnownOfProvider(doc.fields[k].fields[n])])
            ELSE doc.fields[k]])

\* a step of State.load that reads a JSON object
LoadsObject == Load /\ file.kind = "json" /\ file.doc.t = "obj"

\* C31, amended: State.load of a document with unknown fields does not raise
\* and returns the State it returns for the document without them; without
\* a providers field the State has no providers; without an lru_limit field
\* its lru_limit is the value of _env_lru_limit(), which is 5000 only when
\* DISASTER_ALERTS_STATE_LRU is unset or is no integer.
C31_LoadToleratesAndDefaults ==
    [][LoadsObject =>
          /\ lastLoad' = "ok"
          /\ st' = LoadOutcome(JsonFile(KnownOf(file.doc)), bak, envLru).st
          /\ "providers" \notin DOMAIN file.doc.fields => st'.providers = NoProviders
          /\ "lru_limit" \notin DOMAIN file.doc.fields => st'.lru_limit = envLru
          /\ ("lru_limit" \notin DOMAIN file.doc.fields /\ envLru = EnvLruLimit(Absent))
                => st'.lru_limit = DEFAULT_LRU_LIMIT]_vars

\* with the variable set to 2, a document with unknown fields and no
\* lru_limit was loaded: its identities are there, its limit is 2
C31_Witness ==
    /\ lastLoad = "ok"
    /\ file = JsonFile(ExtrasDoc)
    /\ IsState(st)
    /\ envLru = EnvLruLimit("2")
    /\ st.lru_limit = 2
    /\ st.providers["nws"].ids = <<"b", "a">>

\* C31 as stated: a document without an lru_limit field loads with
\* lru_limit 5000.
C31_MissingLimitIs5000 ==
    [][(LoadsObject /\ "lru_limit" \notin DOMAIN file.doc.fields)
          => st'.lru_limit = DEFAULT_LRU_LIMIT]_vars

-----------------------------------------------------------------------------
(* Claims about overlapping runs.                                          *)

\* C32 as stated: while the save calls of two runs interleave, the state file
\* is at every moment absent, as it was before either run saved, or the
\* complete text of one run's State.
C32_FileAlwaysComplete ==
    \/ file = Missing
    \/ \E s \in RaceStates : file = SavedFile(s)

-----------------------------------------------------------------------------
(* Claims about the ids lists of every reachable State.                    *)

\* C33 as stated: in every State reached through load, update_with and save,
\* each provider's ids list has at most lru_limit entries.
C33_IdsWithinLimit ==
    IsState(st) =>
        \A p \in DOMAIN st.providers : Len(st.providers[p].ids) <= st.lru_limit

\* no entry of the list occurs twice
NoRepeat(ids) == \A i, j \in DOMAIN ids : ids[i] = ids[j] => i = j

\* C34: a State that began without identities, whatever update_with, save
\* and load of its own file it went through, holds no identity twice in any
\* provider's list.
C34_NoIdentityTwice ==
    (IsState(st) /\ fromEmpty) =>
        \A p \in DOMAIN st.providers : NoRepeat(st.providers[p].ids)

\* a State that began empty recorded an identity, another one and the first
\* again, was saved and loaded back, and holds two identities
C34_Witness ==
    /\ IsState(st)
    /\ fromEmpty
    /\ reloaded
    /\ "nws" \in DOMAIN hist
    /\ \E i, j, k \in DOMAIN hist["nws"] :
          /\ i < j /\ j < k
          /\ hist["nws"][i].eid = hist["nws"][k].eid
          /\ hist["nws"][i].eid # hist["nws"][j].eid
    /\ Len(st.providers["nws"].ids) = 2

-----------------------------------------------------------------------------
(* Claims about one identity within one run.                               *)

\* C35 as stated: among the events delivered in one run no two have the same
\* provider and the same id.
C35_DeliveredOncePerRun ==
    \A i, j \in DOMAIN delivered :
        (/\ BaseId(delivered[i]) # ""
         /\ ProviderOf(delivered[i]) = ProviderOf(delivered[j])
         /\ BaseId(delivered[i]) = BaseId(delivered[j])) => i = j

-----------------------------------------------------------------------------
(* Claims about update_with applied twice.                                 *)

\* update_with(batch) called twice in a row on State s leaves what one call
\* leaves
SameTwice(s, batch) ==
    LET once == UpdateWith(s, batch)
    IN  UpdateWith(once, batch) = once

-----------------------------------------------------------------------------
(* Claims about dropped groups.                                            *)

\* C37 as stated: no group _group_by_routing_key returns has a key that is a
\* member of drop_groups.
C37_NoGroupUnderDroppedKey ==
    \A i \in DOMAIN grouped : grouped[i].key \notin settings.routing.drop_groups

-----------------------------------------------------------------------------
(* providers/common.py: get_json, one GET with a small retry. *)

DEFAULT_RETRIES == 2

MaxRetries == 2      \* largest retries argument of get_json

\* what _SESSION.get does: raise an exception of the named class ...
Raises(class) == [kind |-> "raises", class |-> class]

\* ... or return a response: status_code, the Retry-After header and the body
Response(status_code, retry_after, body) ==
    [kind |-> "response", status_code |-> status_code, retry_after |-> retry_after,
     body |-> body]

\* the exception is an instance of requests.RequestException (line 71)
IsRequestException(class) == class \in {"ConnectionError", "Timeout", "TooManyRedirects"}

\* resp.json() of the body: the decoded document, or JSONDecodeError
Decodes(body) == body = "json"

SuccessStatuses == {200, 299}

OtherStatuses == {199, 300, 503}

RetryAfters == {None, "2", "-1", "Wed, 21 Oct 2015 07:28:00 GMT"}

Outcomes ==
    {Raises(c) : c \in {"ConnectionError", "Timeout"}}
      \cup {Response(304, None, "")}
      \cup {Response(c, None, b) : c \in SuccessStatuses, b \in {"json", "garbage"}}
      \cup {Response(c, h, "garbage") : c \in OtherStatuses, h \in RetryAfters}

\* float(retry_after) succeeds
IsSeconds(retry_after) == retry_after \in {"2", "-1"}

Seconds(retry_after) == IF retry_after = "2" THEN 2 ELSE -1

\* _sleep_for_retry: the time slept, by the header or by backoff ** attempt
SleepForRetry(attempt, retry_after) ==
    IF retry_after # None /\ retry_after # "" /\ IsSeconds(retry_after)
    THEN [by |-> "retry_after", secs |-> IF Seconds(retry_after) > 0
                                         THEN Seconds(retry_after) ELSE 0]
    ELSE [by |-> "backoff", secs |-> attempt]

NoSleep == [by |-> "none", secs |-> 0]

\* lines 75 and 102 as a mutant has them: one attempt too many
ExhaustedLate(attempt, retries) == attempt > retries + 1

\* lines 75 and 102: if attempt > retries: return {}
Exhausted(attempt, retries) == attempt > retries

EmptyMapping == [kind |-> "empty"]

Decoded(body) == [kind |-> "decoded", body |-> body]

HttpAt(at, retries, attempt, got, nap, returned) ==
    [pc |-> at, retries |-> retries, attempt |-> attempt, got |-> got, nap |-> nap,
     result |-> returned]

\* one pass of the loop, lines 67-108, from the answer o of _SESSION.get
GetJsonPass(h, o) ==
    LET attempt == h.attempt + 1
        got == Append(h.got, o)
        returns(r) == HttpAt("returned", h.retries, attempt, got, NoSleep, r)
        sleeps(retry_after) ==
            HttpAt("sleeping", h.retries, attempt, got,
                   SleepForRetry(attempt, retry_after), None)
    IN  IF o.kind = "raises"
        THEN IF ~IsRequestException(o.class)
             THEN HttpAt("raised", h.retries, attempt, got, NoSleep, None)
             ELSE IF Exhausted(attempt, h.retries)
                  THEN returns(EmptyMapping)
                  ELSE sleeps(None)
        ELSE IF o.status_code = 304
             THEN returns(EmptyMapping)
             ELSE IF 200 <= o.status_code /\ o.status_code < 300
                  THEN IF Decodes(o.body)
                       THEN returns(Decoded(o.body))
                       ELSE returns(EmptyMapping)
                  ELSE IF Exhausted(attempt, h.retries)
                       THEN returns(EmptyMapping)
                       ELSE sleeps(o.retry_after)

otherThanHttp == <<storeVars, runVars, raceVars, mailVars>>

\* lines 66-108: attempt += 1, _SESSION.get, and what follows from its answer
HttpRequest ==
    /\ http.pc = "request"
    /\ \E o \in Outcomes : http' = GetJsonPass(http, o)
    /\ UNCHANGED otherThanHttp

\* time.sleep of _sleep_for_retry returns, and the loop continues
HttpWake ==
    /\ http.pc = "sleeping"
    /\ http' = [http EXCEPT !.pc = "request"]
    /\ UNCHANGED otherThanHttp

\* get_json is called, with retries of 0 up to MaxRetries
HttpInit ==
    /\ RunIdle({NoSettings})
    /\ racers = NoRacers
    /\ http \in {HttpAt("request", r, 0, <<>>, NoSleep, None) : r \in 0..MaxRetries}
    /\ mail = NoMail
    /\ st = NoState
    /\ file = Missing
    /\ tmp = Missing
    /\ bak = Missing
    /\ savepc = "idle"
    /\ envLru = MaxLru
    /\ lastLoad = "none"
    /\ hist = NoHist
    /\ fromEmpty = FALSE
    /\ reloaded = FALSE
    /\ adds = 0

HttpNext == HttpRequest \/ HttpWake

SpecHttp == HttpInit /\ [][HttpNext]_vars

\* the request returns or times out, and the sleep ends
SpecHttpLive == SpecHttp /\ WF_vars(HttpNext)

-----------------------------------------------------------------------------
(* Claims about get_json. *)

\* the answer is a network error or a response that is neither 2xx nor 304
Retriable(o) ==
    \/ o.kind = "raises"
    \/ /\ o.kind = "response"
       /\ o.status_code # 304
       /\ ~(200 <= o.status_code /\ o.status_code < 300)

HttpBounded ==
    /\ http.pc # "raised"
    /\ http.attempt = Len(http.got)
    /\ Len(http.got) <= http.retries + 1
    /\ \A i \in 1..(Len(http.got) - 1) : Retriable(http.got[i])
    /\ http.pc = "sleeping" => Retriable(http.got[Len(http.got)])

HttpReturnsEmpty ==
    http.pc = "returned" =>
        LET o == http.got[Len(http.got)]
        IN  /\ Retriable(o) =>
                /\ Len(http.got) = http.retries + 1
                /\ http.result = EmptyMapping
            /\ (o.kind = "response" /\ o.status_code = 304) =>
                http.result = EmptyMapping
            /\ (o.kind = "response" /\ 200 <= o.status_code /\ o.status_code < 300
                  /\ ~Decodes(o.body)) =>
                http.result = EmptyMapping

\* C38: get_json terminates; it makes at most retries + 1 requests, a further
\* one only after a network error or a response that is neither 2xx nor 304; it
\* returns the empty mapping when the attempts are used up, on 304 and on a 2xx
\* body that does not decode; a network error never makes it raise.
C38_GetJsonTerminates ==
    /\ [](HttpBounded /\ HttpReturnsEmpty)
    /\ <>(http.pc = "returned")

\* all of retries + 1 attempts failed, by network error and by status, and the
\* empty mapping came back
C38_Witness ==
    /\ http.pc = "returned"
    /\ http.retries = DEFAULT_RETRIES
    /\ Len(http.got) = http.retries + 1
    /\ \E i, j \in DOMAIN http.got :
          /\ http.got[i].kind = "raises"
          /\ http.got[j].kind = "response"
    /\ Retriable(http.got[Len(http.got)])
    /\ http.result = EmptyMapping

-----------------------------------------------------------------------------
(* email.py: the order of the events in the plaintext body. *)

\* providers/usgs.py: the severity name of a magnitude, in tenths
SeverityFromMag(mag) ==
    IF ~mag.isnum THEN None
    ELSE IF mag.v < 30 THEN "Minor"
    ELSE IF mag.v < 40 THEN "Light"
    ELSE IF mag.v < 50 THEN "Moderate"
    ELSE IF mag.v < 60 THEN "Strong"
    ELSE IF mag.v < 70 THEN "Major"
    ELSE "Great"

\* an event as the message builder reads it: time is properties.time of an
\* earthquake and properties.expires of an alert, in hours, NoNum when missing
MailEvent(provider, id, title, severity, time) ==
    [provider |-> provider, id |-> id, title |-> title, severity |-> severity,
     time |-> time]

MailQuake(id, mag, time) ==
    MailEvent("usgs", id, "Quake", SeverityFromMag(mag), time)

MailAlert(id, severity, time) ==
    MailEvent("nws", id, "Flood Warning", severity, time)

MailEvents ==
    { MailQuake("q1", Num(25), Num(1)), MailQuake("q2", Num(35), Num(2)),
      MailQuake("q3", Num(45), Num(3)), MailQuake("q4", Num(55), Num(4)),
      MailQuake("q5", Num(65), Num(5)), MailQuake("q6", Num(75), NoNum),
      MailQuake("q7", Num(75), Num(1)), MailQuake("q8", NoNum, Num(6)),
      MailAlert("w1", "Minor", Num(7)), MailAlert("w2", "Moderate", Num(2)),
      MailAlert("w3", "Severe", NoNum), MailAlert("w4", "Extreme", Num(8)),
      MailAlert("w5", None, Num(1)), MailAlert("w6", "Minor", Num(7)) }

MailGroups == UNION {[1..n -> MailEvents] : n \in 1..MaxBatch}

_is_usgs(ev) == ev.provider = "usgs"

\* _SEV_RANK.get((severity or "").strip().lower(), 0), of str(ev.get("severity"))
_sev_rank(severity) ==
    CASE severity \in {"Extreme", "extreme"} -> 4
      [] severity \in {"Severe", "severe"} -> 3
      [] severity \in {"Moderate", "moderate"} -> 2
      [] severity \in {"Minor", "minor"} -> 1
      [] OTHER -> 0

\* key_tuple: title and times; three entries for an earthquake, four for an alert
KeyTuple(ev) ==
    IF _is_usgs(ev) THEN <<ev.title, ev.time, "">>
    ELSE <<ev.title, "", "", ev.time>>

\* list(uniq.values()): each key at the place of its first event, with its last
RECURSIVE Dedupe(_)
Dedupe(evs) ==
    IF evs = <<>> THEN <<>>
    ELSE LET n == Len(evs)
             before == Dedupe(SubSeq(evs, 1, n - 1))
             k == KeyTuple(evs[n])
         IN  IF \E i \in DOMAIN before : KeyTuple(before[i]) = k
             THEN [i \in DOMAIN before |->
                      IF KeyTuple(before[i]) = k THEN evs[n] ELSE before[i]]
             ELSE Append(before, evs[n])

\* datetime.max stands for a missing time
DatetimeMax == 99

TimeOrMax(ev) == IF ev.time.isnum THEN ev.time.v ELSE DatetimeMax

\* the sort key of a is smaller than that of b: (-_sev_rank, time or datetime.max)
KeyBefore(a, b) ==
    \/ _sev_rank(a.severity) > _sev_rank(b.severity)
    \/ /\ _sev_rank(a.severity) = _sev_rank(b.severity)
       /\ TimeOrMax(a) < TimeOrMax(b)

\* e put behind every element whose key is not larger than its own
InsertByKey(sorted, e) ==
    LET later == {i \in DOMAIN sorted : KeyBefore(e, sorted[i])}
        at == IF later = {} THEN Len(sorted) + 1
              ELSE CHOOSE i \in later : \A j \in later : i <= j
    IN  SubSeq(sorted, 1, at - 1) \o <<e>> \o SubSeq(sorted, at, Len(sorted))

\* list.sort(key=...), which is stable
RECURSIVE SortByKey(_)
SortByKey(evs) ==
    IF evs = <<>> THEN <<>>
    ELSE InsertByKey(SortByKey(SubSeq(evs, 1, Len(evs) - 1)), evs[Len(evs)])

\* _format_text_lines: the events in the order of their numbered rows
FormatTextLines(evs) == SortByKey(Dedupe(evs))

\* _build_bodies builds the plaintext body of the group
BuildBodies ==
    /\ ~mail.built
    /\ mail' = [mail EXCEPT !.built = TRUE, !.listed = FormatTextLines(mail.events)]
    /\ UNCHANGED <<storeVars, runVars, raceVars, fetchVars>>

MailInit ==
    /\ RunIdle({NoSettings})
    /\ racers = NoRacers
    /\ http = HttpIdle
    /\ mail \in {[events |-> g, built |-> FALSE, listed |-> <<>>] : g \in MailGroups}
    /\ st = NoState
    /\ file = Missing
    /\ tmp = Missing
    /\ bak = Missing
    /\ savepc = "idle"
    /\ envLru = MaxLru
    /\ lastLoad = "none"
    /\ hist = NoHist
    /\ fromEmpty = FALSE
    /\ reloaded = FALSE
    /\ adds = 0

MailNext == BuildBodies

SpecMail == MailInit /\ [][MailNext]_vars

-----------------------------------------------------------------------------
(* Claims about the order of the plaintext body. *)

\* C39 as stated: the events of the plaintext body are listed in non-increasing
\* order of their rank on the scale of the rules engine (_SEVERITY_RANK), for
\* earthquakes and alerts alike.
C39_ListedBySharedRank ==
    mail.built =>
        \A i, j \in DOMAIN mail.listed :
            i < j => SeverityRank(mail.listed[i].severity)
                        >= SeverityRank(mail.listed[j].severity)

====
